---- MODULE Spec2Model ----
(***************************************************************************)
(* Token ledger and subscription lifecycle of the client-sure backend:     *)
(* the four-bucket balance model, the deduction engine, the credit engine  *)
(* and the payment reconciliation handlers of both gateways.               *)
(*                                                                         *)
(* Time is counted in days.  An account is identified by its e-mail, so    *)
(* the lookup User.findOne({email}) and User.findById coincide.            *)
(***************************************************************************)
EXTENDS Integers, Sequences, FiniteSets, TLC

\* ------------------------------------------------------------------ bounds
MaxDaily == 2
MaxPurchased == 2
MaxBonus == 1
MaxPrize == 1
MaxEndDate == 3
MaxAmount == 4
MaxTime == 32
MaxLegacyTokens == 200
MaxPurchasedTotal == 100
MaxTotalUsed == 150
MaxPrizeTotal == 2

\* ------------------------------------------------------ program constants
Unset == 0
PlanDailyTokens == 100
PlanDurationDays == 30
PlanBonusTokens == 500
PackageTokens == 100
DefaultDailyLimit == 100
MaxPurchasePerDay == 5

UserIds == {"u1"}
OrderIds == {"o1"}
TxnIds == {"t1"}
Procs == {"p1", "p2"}
NoUser == "none"
TickDays == {31}
ResourceCosts == {150}

VARIABLES now, users, orders, txns, calls, resp, audit

vars == <<now, users, orders, txns, calls, resp, audit>>

\* ----------------------------------------------------------------- helpers
Min(a, b) == IF a < b THEN a ELSE b

ZeroBreakdown == [daily |-> 0, purchased |-> 0, bonus |-> 0, prize |-> 0]

NoResp == [op |-> "none", id |-> "none", code |-> 0, result |-> "none",
           amount |-> 0, breakdown |-> ZeroBreakdown, total |-> 0]

\* The User document with the schema defaults; sessions is the set of Session
\* documents whose userId is this account.
NewUser ==
  [exists |-> FALSE,
   sessions |-> {},
   tokens |-> 0,
   dailyTokens |-> [current |-> 0, limit |-> DefaultDailyLimit, usedToday |-> 0],
   purchasedTokens |-> [current |-> 0, total |-> 0, used |-> 0,
                        lastPurchasedAt |-> Unset, expiresAt |-> Unset],
   bonusTokens |-> [current |-> 0, initial |-> 0, used |-> 0,
                    grantedAt |-> Unset, expiresAt |-> Unset],
   prizeTokens |-> [current |-> 0, used |-> 0, history |-> <<>>],
   temporaryTokens |-> [amount |-> 0],
   referredBy |-> NoUser,
   referrals |-> <<>>,
   referralStats |-> [totalReferrals |-> 0, activeReferrals |-> 0],
   milestoneRewards |-> [referral8Cycles |-> 0, referral8LastReset |-> Unset,
                         referral15Cycles |-> 0, referral15LastReset |-> Unset,
                         referral25Cycles |-> 0, referral25LastReset |-> Unset,
                         totalTokensEarned |-> 0],
   tokenStats |-> [totalUsed |-> 0, dailyUsed |-> 0, purchasedUsed |-> 0,
                   bonusUsed |-> 0, prizeUsed |-> 0],
   subscription |-> [startDate |-> Unset, endDate |-> Unset,
                     dailyTokens |-> DefaultDailyLimit, isActive |-> TRUE]]

SumCurrent(user) ==
  user.dailyTokens.current + user.purchasedTokens.current
    + user.bonusTokens.current + user.prizeTokens.current

\* !user.subscription?.endDate || user.subscription.endDate < now
SubscriptionExpired(user, t) ==
  user.subscription.endDate = Unset \/ user.subscription.endDate < t

calculateTotalTokens_NoExpiry(user, t) == SumCurrent(user)

calculateTotalTokens(user, t) ==
  IF SubscriptionExpired(user, t) THEN 0 ELSE SumCurrent(user)

\* total of getTokenBreakdown: planActive is endDate > now
getTokenBreakdownTotal(user, t) ==
  IF user.subscription.endDate # Unset /\ user.subscription.endDate > t
  THEN calculateTotalTokens(user, t)
  ELSE 0

\* ---------------------------------------------------------- deduction engine
\* Math.min(remaining, bucket.current) when remaining > 0 and the bucket holds tokens
TakeFrom(remaining, current) ==
  IF remaining > 0 /\ current > 0 THEN Min(remaining, current) ELSE 0

deductionBreakdown_PurchasedFirst(user, amount) ==
  LET p == TakeFrom(amount, user.purchasedTokens.current)
      d == TakeFrom(amount - p, user.dailyTokens.current)
      b == TakeFrom(amount - p - d, user.bonusTokens.current)
      z == TakeFrom(amount - p - d - b, user.prizeTokens.current)
  IN [daily |-> d, purchased |-> p, bonus |-> b, prize |-> z]

\* Steps 1-4 of deductTokens: Daily, Purchased, Bonus, Prize
deductionBreakdown(user, amount) ==
  LET d == TakeFrom(amount, user.dailyTokens.current)
      p == TakeFrom(amount - d, user.purchasedTokens.current)
      b == TakeFrom(amount - d - p, user.bonusTokens.current)
      z == TakeFrom(amount - d - p - b, user.prizeTokens.current)
  IN [daily |-> d, purchased |-> p, bonus |-> b, prize |-> z]

deductOutcome_OffByOne(user, amount, t) ==
  IF ~user.exists THEN "UserNotFound"
  ELSE IF SubscriptionExpired(user, t) THEN "SubscriptionExpired"
  ELSE IF calculateTotalTokens(user, t) + 1 < amount THEN "InsufficientTokens"
  ELSE "ok"

deductOutcome_BalanceFirst(user, amount, t) ==
  IF ~user.exists THEN "UserNotFound"
  ELSE IF calculateTotalTokens(user, t) < amount THEN "InsufficientTokens"
  ELSE IF SubscriptionExpired(user, t) THEN "SubscriptionExpired"
  ELSE "ok"

\* The checks of deductTokens, in the order of the code
deductOutcome(user, amount, t) ==
  IF ~user.exists THEN "UserNotFound"
  ELSE IF SubscriptionExpired(user, t) THEN "SubscriptionExpired"
  ELSE IF calculateTotalTokens(user, t) < amount THEN "InsufficientTokens"
  ELSE "ok"

applyDeduction_BonusKept(user, amount, bd, t) ==
  LET debited ==
        [user EXCEPT
           !.dailyTokens.current = @ - bd.daily,
           !.dailyTokens.usedToday = @ + bd.daily,
           !.purchasedTokens.current = @ - bd.purchased,
           !.purchasedTokens.used = @ + bd.purchased,
           !.bonusTokens.used = @ + bd.bonus,
           !.prizeTokens.current = @ - bd.prize,
           !.prizeTokens.used = @ + bd.prize,
           !.tokenStats.totalUsed = @ + amount,
           !.tokenStats.dailyUsed = @ + bd.daily,
           !.tokenStats.purchasedUsed = @ + bd.purchased,
           !.tokenStats.bonusUsed = @ + bd.bonus,
           !.tokenStats.prizeUsed = @ + bd.prize]
  IN [debited EXCEPT !.tokens = calculateTotalTokens(debited, t)]

applyDeduction_StatsLag(user, amount, bd, t) ==
  LET debited ==
        [user EXCEPT
           !.dailyTokens.current = @ - bd.daily,
           !.dailyTokens.usedToday = @ + bd.daily,
           !.purchasedTokens.current = @ - bd.purchased,
           !.purchasedTokens.used = @ + bd.purchased,
           !.bonusTokens.current = @ - bd.bonus,
           !.bonusTokens.used = @ + bd.bonus,
           !.prizeTokens.current = @ - bd.prize,
           !.prizeTokens.used = @ + bd.prize,
           !.tokenStats.totalUsed = @ + amount,
           !.tokenStats.dailyUsed = @ + bd.daily,
           !.tokenStats.bonusUsed = @ + bd.bonus,
           !.tokenStats.prizeUsed = @ + bd.prize]
  IN [debited EXCEPT !.tokens = calculateTotalTokens(debited, t)]

\* The in-memory document of deductTokens right before user.save()
applyDeduction(user, amount, bd, t) ==
  LET debited ==
        [user EXCEPT
           !.dailyTokens.current = @ - bd.daily,
           !.dailyTokens.usedToday = @ + bd.daily,
           !.purchasedTokens.current = @ - bd.purchased,
           !.purchasedTokens.used = @ + bd.purchased,
           !.bonusTokens.current = @ - bd.bonus,
           !.bonusTokens.used = @ + bd.bonus,
           !.prizeTokens.current = @ - bd.prize,
           !.prizeTokens.used = @ + bd.prize,
           !.tokenStats.totalUsed = @ + amount,
           !.tokenStats.dailyUsed = @ + bd.daily,
           !.tokenStats.purchasedUsed = @ + bd.purchased,
           !.tokenStats.bonusUsed = @ + bd.bonus,
           !.tokenStats.prizeUsed = @ + bd.prize]
  IN [debited EXCEPT !.tokens = calculateTotalTokens(debited, t)]

\* The document deductTokens holds when it returns (unchanged when it throws)
deductedDoc(user, amount, t) ==
  IF deductOutcome(user, amount, t) = "ok"
  THEN applyDeduction(user, amount, deductionBreakdown(user, amount), t)
  ELSE user

MergePaths(stored, loaded, doc) ==
  [f \in DOMAIN stored |-> IF doc[f] # loaded[f] THEN doc[f] ELSE stored[f]]

\* user.save(): only the paths the handler modified since it loaded the
\* document are written; every other path keeps what the store holds.
SaveModified(stored, loaded, doc) ==
  [stored EXCEPT
     !.tokens = IF doc.tokens # loaded.tokens THEN doc.tokens ELSE @,
     !.dailyTokens = MergePaths(@, loaded.dailyTokens, doc.dailyTokens),
     !.purchasedTokens = MergePaths(@, loaded.purchasedTokens, doc.purchasedTokens),
     !.bonusTokens = MergePaths(@, loaded.bonusTokens, doc.bonusTokens),
     !.prizeTokens = MergePaths(@, loaded.prizeTokens, doc.prizeTokens),
     !.tokenStats = MergePaths(@, loaded.tokenStats, doc.tokenStats)]

deductResp(u, user, amount, t) ==
  LET outcome == deductOutcome(user, amount, t)
  IN [op |-> "deductTokens", id |-> u, code |-> 0, result |-> outcome,
      amount |-> amount,
      breakdown |-> IF outcome = "ok" THEN deductionBreakdown(user, amount)
                    ELSE ZeroBreakdown,
      total |-> getTokenBreakdownTotal(deductedDoc(user, amount, t), t)]

IdleCall == [pc |-> "idle", user |-> NoUser, amount |-> 0, at |-> 0, doc |-> NewUser]

\* deductTokens run by one request with no other request in between
DeductTokens(u, amount) ==
  LET user == users[u]
      outcome == deductOutcome(user, amount, now)
  IN /\ \A p \in Procs : calls[p].pc = "idle"
     /\ users' = [users EXCEPT ![u] = SaveModified(@, user, deductedDoc(user, amount, now))]
     /\ resp' = deductResp(u, user, amount, now)
     /\ audit' = IF outcome = "ok"
                 THEN [audit EXCEPT ![u].deducted = @ + amount]
                 ELSE audit
     /\ UNCHANGED <<now, orders, txns, calls>>

\* deductTokens, first half: const user = await User.findById(userId)
DeductLoad(p, u, amount) ==
  /\ calls[p].pc = "idle"
  /\ calls' = [calls EXCEPT ![p] = [pc |-> "loaded", user |-> u, amount |-> amount,
                                    at |-> now, doc |-> users[u]]]
  /\ UNCHANGED <<now, users, orders, txns, resp, audit>>

\* deductTokens, second half: checks, debit of the loaded document, user.save()
DeductSave(p) ==
  LET c == calls[p]
      outcome == deductOutcome(c.doc, c.amount, c.at)
  IN /\ c.pc = "loaded"
     /\ users' = [users EXCEPT ![c.user] =
                    SaveModified(@, c.doc, deductedDoc(c.doc, c.amount, c.at))]
     /\ resp' = deductResp(c.user, c.doc, c.amount, c.at)
     /\ audit' = IF outcome = "ok"
                 THEN [audit EXCEPT ![c.user].deducted = @ + c.amount]
                 ELSE audit
     /\ calls' = [calls EXCEPT ![p] = IdleCall]
     /\ UNCHANGED <<now, orders, txns>>

\* ------------------------------------------- records of the payment flows
NoOrder == [exists |-> FALSE, userId |-> NoUser, userEmail |-> NoUser,
            status |-> "pending", paymentStatus |-> "pending",
            failureReason |-> FALSE]

NoTxn == [exists |-> FALSE, userId |-> NoUser, tokens |-> 0, status |-> "pending",
          hasTransactionId |-> FALSE, createdAt |-> 0, failureReason |-> FALSE]

\* ------------------------------------- specification of the deduction engine
\* Accounts drawn from bounded bucket states; the calls are deductTokens calls.
\* The spillover case of the deduction policy: daily 5, purchased 10, request 8
DeductScenario == [daily |-> 5, purchased |-> 10, bonus |-> 0, prize |-> 0, request |-> 8]

DeductAmounts == (1..MaxAmount) \cup {DeductScenario.request}

BucketUser(d, p, b, z, e) ==
  [NewUser EXCEPT !.exists = TRUE,
                  !.dailyTokens.current = d,
                  !.purchasedTokens.current = p,
                  !.bonusTokens.current = b,
                  !.prizeTokens.current = z,
                  !.prizeTokens.history = IF z > 0 THEN <<z>> ELSE <<>>,
                  !.temporaryTokens.amount = z,
                  !.tokens = d + p + b + z,
                  !.subscription.endDate = e]

BucketUsers ==
  {BucketUser(DeductScenario.daily, DeductScenario.purchased, DeductScenario.bonus,
              DeductScenario.prize, MaxEndDate)} \cup
  {BucketUser(d, p, b, z, e) :
     d \in 0..MaxDaily, p \in 0..MaxPurchased, b \in 0..MaxBonus,
     z \in 0..MaxPrize, e \in 0..MaxEndDate}

InitCommon ==
  /\ orders = [o \in OrderIds |-> NoOrder]
  /\ txns = [t \in TxnIds |-> NoTxn]
  /\ calls = [p \in Procs |-> IdleCall]
  /\ resp = NoResp

InitDeduct ==
  /\ now = 2
  /\ users \in [UserIds -> BucketUsers]
  /\ audit = [u \in UserIds |-> [start |-> SumCurrent(users[u]), deducted |-> 0]]
  /\ InitCommon

NextDeduct == \E u \in UserIds, amount \in DeductAmounts : DeductTokens(u, amount)

SpecDeduct == InitDeduct /\ [][NextDeduct]_vars

\* ------------------------------ specification of concurrent deduction requests
\* Each request is a deductTokens call; requests interleave at the two awaits.
InitConc ==
  /\ now = 2
  /\ users \in [UserIds -> {BucketUser(d, p, 0, 0, MaxEndDate) :
                               d \in 0..MaxDaily, p \in 0..MaxPurchased}]
  /\ audit = [u \in UserIds |-> [start |-> SumCurrent(users[u]), deducted |-> 0]]
  /\ InitCommon

NextConc ==
  \/ \E p \in Procs, u \in UserIds, amount \in 1..MaxAmount : DeductLoad(p, u, amount)
  \/ \E p \in Procs : DeductSave(p)

SpecConc == InitConc /\ [][NextConc]_vars

\* C3: concurrent deductTokens calls on one account behave as if run one after
\* another: the total reported as deducted equals the decrease of the sum of the
\* four bucket currents and never exceeds the balance held before the calls.
C3_NoDoubleSpend ==
  \A u \in UserIds :
    /\ audit[u].deducted = audit[u].start - SumCurrent(users[u])
    /\ audit[u].deducted <= audit[u].start

BreakdownSum(bd) == bd.daily + bd.purchased + bd.bonus + bd.prize

\* C6: with an active subscription and an amount within the total, deductTokens
\* debits daily, then purchased, then bonus, then prize, min(remaining, current)
\* at each step; a later bucket is debited only once every earlier one is at 0.
C6_DeductionPriority ==
  [][\A u \in UserIds, a \in {resp'.amount} :
       (/\ DeductTokens(u, a)
        /\ ~SubscriptionExpired(users[u], now)
        /\ a <= SumCurrent(users[u]))
       => LET pre == users[u]
              post == users'[u]
              bd == resp'.breakdown
          IN /\ resp'.result = "ok"
             /\ bd.daily = Min(a, pre.dailyTokens.current)
             /\ bd.purchased = Min(a - bd.daily, pre.purchasedTokens.current)
             /\ bd.bonus = Min(a - bd.daily - bd.purchased, pre.bonusTokens.current)
             /\ bd.prize = Min(a - bd.daily - bd.purchased - bd.bonus,
                               pre.prizeTokens.current)
             /\ post.dailyTokens.current = pre.dailyTokens.current - bd.daily
             /\ post.purchasedTokens.current = pre.purchasedTokens.current - bd.purchased
             /\ post.bonusTokens.current = pre.bonusTokens.current - bd.bonus
             /\ post.prizeTokens.current = pre.prizeTokens.current - bd.prize
             /\ (bd.purchased > 0 => post.dailyTokens.current = 0)
             /\ (bd.bonus > 0 => post.dailyTokens.current = 0
                                 /\ post.purchasedTokens.current = 0)
             /\ (bd.prize > 0 => post.dailyTokens.current = 0
                                 /\ post.purchasedTokens.current = 0
                                 /\ post.bonusTokens.current = 0)]_vars

\* daily=5, purchased=10, request 8: daily 5, purchased 3, bonus 0, prize 0
C6_Witness ==
  /\ resp.op = "deductTokens" /\ resp.result = "ok" /\ resp.amount = 8
  /\ resp.breakdown = [daily |-> 5, purchased |-> 3, bonus |-> 0, prize |-> 0]
  /\ users["u1"].dailyTokens.current = 0
  /\ users["u1"].purchasedTokens.current = 7

\* C7: a successful deductTokens call lowers the sum of the four bucket
\* currents by exactly the requested amount, and the requested amount is the
\* sum of the four entries of the returned breakdown.
C7_DeductionPreservesTotal ==
  [][\A u \in UserIds, a \in {resp'.amount} :
       (DeductTokens(u, a) /\ resp'.result = "ok")
       => /\ SumCurrent(users[u]) - a = SumCurrent(users'[u])
          /\ resp'.amount = a
          /\ a = BreakdownSum(resp'.breakdown)]_vars

C7_Witness ==
  /\ resp.op = "deductTokens" /\ resp.result = "ok"
  /\ resp.breakdown.purchased > 0 /\ resp.breakdown.bonus > 0
  /\ resp.breakdown.prize > 0
  /\ users["u1"].tokenStats.totalUsed = resp.amount

\* C8 as stated: any call requesting more than the total fails with
\* InsufficientTokens and changes nothing.
C8_Original ==
  [][\A u \in UserIds, a \in {resp'.amount} :
       (DeductTokens(u, a) /\ a > calculateTotalTokens(users[u], now))
       => resp'.result = "InsufficientTokens" /\ users' = users]_vars

\* C8 amended: on an account whose subscription is active, a call requesting
\* more than the total fails with InsufficientTokens and leaves every bucket,
\* used counter and usage statistic unchanged.
C8_OverRequestFails ==
  [][\A u \in UserIds, a \in {resp'.amount} :
       (/\ DeductTokens(u, a)
        /\ ~SubscriptionExpired(users[u], now)
        /\ a > calculateTotalTokens(users[u], now))
       => resp'.result = "InsufficientTokens" /\ users' = users]_vars

C8_Witness ==
  /\ resp.op = "deductTokens" /\ resp.result = "InsufficientTokens"
  /\ ~SubscriptionExpired(users["u1"], now)
  /\ SumCurrent(users["u1"]) > 0
  /\ resp.amount > SumCurrent(users["u1"])

\* C9: a call on an account whose endDate is unset or in the past fails with
\* SubscriptionExpired whatever the buckets hold, also when the amount exceeds
\* the total, and leaves the account unchanged.
C9_ExpiredFailsFirst ==
  [][\A u \in UserIds, a \in {resp'.amount} :
       (DeductTokens(u, a) /\ users[u].exists
        /\ (users[u].subscription.endDate = Unset
            \/ users[u].subscription.endDate < now))
       => resp'.result = "SubscriptionExpired" /\ users' = users]_vars

C9_Witness ==
  /\ resp.op = "deductTokens" /\ resp.result = "SubscriptionExpired"
  /\ users["u1"].subscription.endDate # Unset
  /\ users["u1"].subscription.endDate < now
  /\ SumCurrent(users["u1"]) > 0
  /\ resp.amount > SumCurrent(users["u1"])

\* ------------------------------------------------------------ referral engine
\* The milestones in the order Object.entries walks them.
REFERRAL_MILESTONES ==
  << [key |-> "referral_8", target |-> 8, reward |-> 300,
      cycleField |-> "referral8Cycles", resetField |-> "referral8LastReset"],
     [key |-> "referral_15", target |-> 15, reward |-> 500,
      cycleField |-> "referral15Cycles", resetField |-> "referral15LastReset"],
     [key |-> "referral_25", target |-> 25, reward |-> 1000,
      cycleField |-> "referral25Cycles", resetField |-> "referral25LastReset"] >>

CycleFields == {REFERRAL_MILESTONES[i].cycleField : i \in DOMAIN REFERRAL_MILESTONES}

ActiveCount(user) ==
  Cardinality({i \in DOMAIN user.referrals : user.referrals[i].isActive})

\* updateReferralStats: both counters are recomputed from the referral list
updateReferralStats_KeepsActive(user) ==
  [user EXCEPT !.referralStats.totalReferrals = Len(user.referrals)]

updateReferralStats(user) ==
  [user EXCEPT !.referralStats.totalReferrals = Len(user.referrals),
               !.referralStats.activeReferrals = ActiveCount(user)]

\* grantMilestoneRewardAndReset: the reward replaces temporaryTokens, the
\* milestone's cycle counter and reset stamp advance, and progress is reset
grantMilestoneRewardAndReset_NoReset(user, milestone, t) ==
  [user EXCEPT
     !.temporaryTokens.amount = milestone.reward,
     !.milestoneRewards =
        [@ EXCEPT ![milestone.cycleField] = @ + 1,
                  ![milestone.resetField] = t,
                  !.totalTokensEarned = @ + milestone.reward]]

grantMilestoneRewardAndReset(user, milestone, t) ==
  [user EXCEPT
     !.temporaryTokens.amount = milestone.reward,
     !.milestoneRewards =
        [@ EXCEPT ![milestone.cycleField] = @ + 1,
                  ![milestone.resetField] = t,
                  !.totalTokensEarned = @ + milestone.reward],
     !.referralStats.activeReferrals = 0,
     !.referrals =
        [i \in DOMAIN @ |->
           IF @[i].isActive
           THEN [@[i] EXCEPT !.isActive = FALSE, !.subscriptionStatus = "cycled"]
           ELSE @[i]]]

RECURSIVE milestoneLoop_NoBreak(_, _, _, _)
RECURSIVE milestoneLoop(_, _, _, _)

milestoneLoop_NoBreak(user, activeReferrals, i, t) ==
  IF i > Len(REFERRAL_MILESTONES) THEN user
  ELSE IF activeReferrals >= REFERRAL_MILESTONES[i].target
  THEN milestoneLoop_NoBreak(
         grantMilestoneRewardAndReset(user, REFERRAL_MILESTONES[i], t),
         activeReferrals, i + 1, t)
  ELSE milestoneLoop_NoBreak(user, activeReferrals, i + 1, t)

milestoneLoop_HighestFirst(user, activeReferrals, i, t) ==
  LET reached == {j \in i..Len(REFERRAL_MILESTONES) :
                    activeReferrals >= REFERRAL_MILESTONES[j].target}
  IN IF reached = {} THEN user
     ELSE grantMilestoneRewardAndReset(
            user,
            REFERRAL_MILESTONES[CHOOSE j \in reached : \A k \in reached : k <= j],
            t)

\* The loop of checkReferralMilestones from milestone i on: the first
\* milestone whose target is reached is granted and the loop ends.
milestoneLoop(user, activeReferrals, i, t) ==
  IF i > Len(REFERRAL_MILESTONES) THEN user
  ELSE IF activeReferrals >= REFERRAL_MILESTONES[i].target
  THEN grantMilestoneRewardAndReset(user, REFERRAL_MILESTONES[i], t)
  ELSE milestoneLoop(user, activeReferrals, i + 1, t)

\* checkReferralMilestones on the stored referrer: the stored activeReferrals
\* is read once, before the loop
checkReferralMilestones(user, t) ==
  milestoneLoop(user, user.referralStats.activeReferrals, 1, t)

\* processReferralReward on the stored referrer: the first entry of the
\* referred account becomes active, the stats are recomputed and the
\* milestones are checked
processReferralReward(referrer, referredUserId, t) ==
  LET matching == {i \in DOMAIN referrer.referrals :
                     referrer.referrals[i].userId = referredUserId}
      first == CHOOSE i \in matching : \A j \in matching : i <= j
      flipped == IF matching = {} THEN referrer
                 ELSE [referrer EXCEPT
                         !.referrals[first].isActive = TRUE,
                         !.referrals[first].subscriptionStatus = "active"]
  IN IF ~referrer.exists THEN referrer
     ELSE checkReferralMilestones(updateReferralStats(flipped), t)

\* The accounts after processReferralReward(u, referredBy) when account u was
\* referred: what a completion handler does under `if (user.referredBy)`.
withReferralReward(accounts, u, t) ==
  LET r == accounts[u].referredBy IN
  IF r = NoUser THEN accounts
  ELSE [accounts EXCEPT ![r] = processReferralReward(@, u, t)]

\* -------------------------------------------------- subscription lifecycle
Resp(op, id, code, result) ==
  [NoResp EXCEPT !.op = op, !.id = id, !.code = code, !.result = result]

\* user.subscription = { planId, startDate, endDate, dailyTokens, monthlyAllocation, isActive }
PlanSubscription(t) ==
  [startDate |-> t, endDate |-> t + PlanDurationDays,
   dailyTokens |-> PlanDailyTokens, isActive |-> TRUE]

\* user.bonusTokens = { current, initial, used, grantedAt }; expiresAt falls
\* back to the schema default
PlanBonus(t) ==
  [current |-> PlanBonusTokens, initial |-> PlanBonusTokens, used |-> 0,
   grantedAt |-> IF PlanBonusTokens > 0 THEN t ELSE Unset, expiresAt |-> Unset]

activateRazorpay_StackDays(user, t) ==
  LET left == IF user.subscription.endDate > t
              THEN user.subscription.endDate - t ELSE 0
  IN [user EXCEPT !.exists = TRUE,
                  !.subscription = [PlanSubscription(t) EXCEPT !.endDate = @ + left],
                  !.tokens = PlanDailyTokens,
                  !.bonusTokens = PlanBonus(t)]

\* verifySubscriptionPayment: the account after the plan of the order is applied
\* (new User(...) for a guest order, then the update block for every account)
activateRazorpay(user, t) ==
  [user EXCEPT !.exists = TRUE,
               !.subscription = PlanSubscription(t),
               !.tokens = PlanDailyTokens,
               !.bonusTokens = PlanBonus(t)]

\* processSubscriptionWebhook and the payments webhook: subscription window and
\* legacy tokens only
activateLegacy(user, t) ==
  [user EXCEPT !.exists = TRUE,
               !.subscription = PlanSubscription(t),
               !.tokens = PlanDailyTokens]

\* register: a new account without subscription
Register(u) ==
  /\ \A p \in Procs : calls[p].pc = "idle"
  /\ IF users[u].exists
     THEN /\ resp' = Resp("register", u, 409, "exists")
          /\ UNCHANGED users
     ELSE /\ users' = [users EXCEPT ![u] =
                         [NewUser EXCEPT !.exists = TRUE, !.subscription.dailyTokens = 0]]
          /\ resp' = Resp("register", u, 201, "ok")
  /\ UNCHANGED <<now, orders, txns, calls, audit>>

\* createOrder: pending Order, deleted again when the gateway order fails
CreateOrder(o, e, gatewayOk) ==
  /\ \A p \in Procs : calls[p].pc = "idle"
  /\ ~orders[o].exists
  /\ IF gatewayOk
     THEN /\ orders' = [orders EXCEPT ![o] =
                          [NoOrder EXCEPT !.exists = TRUE, !.userEmail = e,
                                          !.userId = IF users[e].exists THEN e ELSE NoUser]]
          /\ resp' = Resp("createOrder", o, 200, "ok")
     ELSE /\ resp' = Resp("createOrder", o, 500, "error")
          /\ UNCHANGED orders
  /\ UNCHANGED <<now, users, txns, calls, audit>>

\* createSubscriptionPayment (PhonePe): refuses a paid order, otherwise the
\* order is set to pending once the gateway payment exists
CreateSubscriptionPayment(o, gatewayOk) ==
  /\ \A p \in Procs : calls[p].pc = "idle"
  /\ IF ~orders[o].exists
     THEN resp' = Resp("createSubscriptionPayment", o, 404, "not_found") /\ UNCHANGED orders
     ELSE IF orders[o].paymentStatus = "completed"
     THEN resp' = Resp("createSubscriptionPayment", o, 400, "already_paid") /\ UNCHANGED orders
     ELSE IF ~gatewayOk
     THEN resp' = Resp("createSubscriptionPayment", o, 500, "error") /\ UNCHANGED orders
     ELSE /\ orders' = [orders EXCEPT ![o].paymentStatus = "pending"]
          /\ resp' = Resp("createSubscriptionPayment", o, 200, "ok")
  /\ UNCHANGED <<now, users, txns, calls, audit>>

\* handleWebhook -> processWebhook -> processSubscriptionWebhook (PhonePe)
PhonePeSubscriptionWebhook(o, state, sigOk) ==
  LET order == orders[o] IN
  /\ \A p \in Procs : calls[p].pc = "idle"
  /\ IF ~sigOk
     THEN resp' = Resp("phonepeSubscriptionWebhook", o, 401, "invalid_signature")
          /\ UNCHANGED <<users, orders>>
     ELSE /\ resp' = Resp("phonepeSubscriptionWebhook", o, 200, "ack")
          /\ IF ~order.exists \/ state = "PENDING"
             THEN UNCHANGED <<users, orders>>
             ELSE IF state = "COMPLETED"
             THEN /\ orders' = [orders EXCEPT ![o].paymentStatus = "completed"]
                  /\ IF order.userId # NoUser /\ users[order.userId].exists
                     THEN users' = [users EXCEPT ![order.userId] = activateLegacy(@, now)]
                     ELSE UNCHANGED users
             ELSE /\ orders' = [orders EXCEPT ![o].paymentStatus = "failed",
                                              ![o].failureReason = TRUE]
                  /\ UNCHANGED users
  /\ UNCHANGED <<now, txns, calls, audit>>

\* uuidv4(): a session id no Session document of the account holds
freshSessionId(user) ==
  CHOOSE n \in 1..(Cardinality(user.sessions) + 1) :
    \A s \in user.sessions : s.sessionId # n

\* new Session({ userId, sessionId: uuidv4(), deviceId, ... }).save()
withSession(user, deviceId) ==
  [user EXCEPT !.sessions = @ \cup {[sessionId |-> freshSessionId(user),
                                     deviceId |-> deviceId]}]

\* verifySubscriptionPayment (Razorpay); it ends with the session of the
\* automatic login, whose device is named after the order. The Session
\* collection is part of the state where sessionsKept holds.
verifySubscriptionPayment(o, sigOk, sessionsKept) ==
  LET order == orders[o]
      u == IF order.userId # NoUser THEN order.userId ELSE order.userEmail
  IN
  /\ \A p \in Procs : calls[p].pc = "idle"
  /\ IF ~sigOk
     THEN resp' = Resp("verifySubscriptionPayment", o, 400, "invalid_signature")
          /\ UNCHANGED <<users, orders>>
     ELSE IF ~order.exists
     THEN resp' = Resp("verifySubscriptionPayment", o, 404, "not_found")
          /\ UNCHANGED <<users, orders>>
     ELSE IF order.paymentStatus = "completed"
     THEN resp' = Resp("verifySubscriptionPayment", o, 200, "already_processed")
          /\ UNCHANGED <<users, orders>>
     ELSE /\ users' = withReferralReward(
                         [users EXCEPT ![u] =
                            IF sessionsKept
                            THEN withSession(activateRazorpay(@, now), o)
                            ELSE activateRazorpay(@, now)],
                         u, now)
          /\ orders' = [orders EXCEPT ![o].paymentStatus = "completed", ![o].userId = u]
          /\ resp' = Resp("verifySubscriptionPayment", o, 200, "ok")
  /\ UNCHANGED <<now, txns, calls, audit>>

\* verifySubscriptionPayment, the Session collection left out of the state
VerifySubscriptionPayment(o, sigOk) == verifySubscriptionPayment(o, sigOk, FALSE)

\* The signature test of the payments webhook: only in production, only when a
\* signature is sent and it is not the development dummy
LegacySignatureRejected(env, sig) ==
  env = "production" /\ sig \notin {"none", "dummy"} /\ sig # "valid"

\* handleWebhook of the payments webhook, event payment.success for order o
PaymentsWebhook(o, env, sig) ==
  LET order == orders[o] IN
  /\ \A p \in Procs : calls[p].pc = "idle"
  /\ IF LegacySignatureRejected(env, sig)
     THEN resp' = Resp("paymentsWebhook", o, 400, "invalid_signature")
          /\ UNCHANGED <<users, orders>>
     ELSE IF ~order.exists
     THEN resp' = Resp("paymentsWebhook", o, 404, "not_found")
          /\ UNCHANGED <<users, orders>>
     ELSE IF order.status = "completed"
     THEN resp' = Resp("paymentsWebhook", o, 200, "already_processed")
          /\ UNCHANGED <<users, orders>>
     ELSE /\ orders' = [orders EXCEPT ![o].status = "completed"]
          /\ users' = withReferralReward(
                         [users EXCEPT ![order.userEmail] = activateLegacy(@, now)],
                         order.userEmail, now)
          /\ resp' = Resp("paymentsWebhook", o, 200, "ok")
  /\ UNCHANGED <<now, txns, calls, audit>>

\* ------------------------------------------------------------ token purchases
\* createTokenPurchase (tokens API, Razorpay order inside a database transaction)
CreateTokenPurchase(t, u, gatewayOk) ==
  LET todayPurchases ==
        Cardinality({x \in DOMAIN txns : /\ txns[x].exists /\ txns[x].userId = u
                                    /\ txns[x].status = "completed"
                                    /\ txns[x].createdAt >= now})
  IN
  /\ \A p \in Procs : calls[p].pc = "idle"
  /\ ~txns[t].exists
  /\ IF ~users[u].exists
     THEN resp' = Resp("createTokenPurchase", t, 404, "not_found") /\ UNCHANGED txns
     ELSE IF SubscriptionExpired(users[u], now)
     THEN resp' = Resp("createTokenPurchase", t, 403, "NoActiveSubscription") /\ UNCHANGED txns
     ELSE IF todayPurchases >= MaxPurchasePerDay
     THEN resp' = Resp("createTokenPurchase", t, 429, "limit") /\ UNCHANGED txns
     ELSE IF ~gatewayOk
     THEN resp' = Resp("createTokenPurchase", t, 500, "error") /\ UNCHANGED txns
     ELSE /\ txns' = [txns EXCEPT ![t] =
                        [exists |-> TRUE, userId |-> u, tokens |-> PackageTokens,
                         status |-> "pending", hasTransactionId |-> TRUE,
                         createdAt |-> now, failureReason |-> FALSE]]
          /\ resp' = Resp("createTokenPurchase", t, 200, "ok")
  /\ UNCHANGED <<now, users, orders, calls, audit>>

\* createTokenPayment (PhonePe) and createTokenOrder (Razorpay): the pending
\* transaction is saved before the gateway is called; only createTokenOrder
\* gives it a transactionId
CreateGatewayTokenOrder(t, u, gateway, gatewayOk) ==
  /\ \A p \in Procs : calls[p].pc = "idle"
  /\ ~txns[t].exists
  /\ IF ~users[u].exists
     THEN resp' = Resp("createTokenOrder", t, 404, "not_found") /\ UNCHANGED txns
     ELSE /\ txns' = [txns EXCEPT ![t] =
                        [exists |-> TRUE, userId |-> u, tokens |-> PackageTokens,
                         status |-> "pending",
                         hasTransactionId |-> (gateway = "razorpay"),
                         createdAt |-> now, failureReason |-> FALSE]]
          /\ resp' = IF gatewayOk THEN Resp("createTokenOrder", t, 200, "ok")
                     ELSE Resp("createTokenOrder", t, 500, "error")
  /\ UNCHANGED <<now, users, orders, calls, audit>>

\* addPurchasedTokens on the stored account
addPurchasedTokens(user, amount, t) ==
  LET credited ==
        [user EXCEPT !.purchasedTokens.current = @ + amount,
                     !.purchasedTokens.total = @ + amount,
                     !.purchasedTokens.lastPurchasedAt = t,
                     !.purchasedTokens.expiresAt = user.subscription.endDate]
  IN [credited EXCEPT !.tokens = calculateTotalTokens(credited, t)]

\* processTokenPurchase (tokens webhook): the transaction is committed as
\* completed, then addPurchasedTokens runs outside the database transaction
ProcessTokenPurchase(t, status) ==
  LET txn == txns[t]
      user == users[txn.userId]
  IN
  /\ \A p \in Procs : calls[p].pc = "idle"
  /\ IF ~txn.exists \/ ~txn.hasTransactionId
     THEN resp' = Resp("processTokenPurchase", t, 404, "not_found")
          /\ UNCHANGED <<users, txns>>
     ELSE IF txn.status = "completed"
     THEN resp' = Resp("processTokenPurchase", t, 200, "already_processed")
          /\ UNCHANGED <<users, txns>>
     ELSE IF status = "success"
     THEN /\ txns' = [txns EXCEPT ![t].status = "completed"]
          /\ IF SubscriptionExpired(user, now)
             THEN /\ resp' = Resp("processTokenPurchase", t, 500, "NoActiveSubscription")
                  /\ UNCHANGED users
             ELSE /\ user.purchasedTokens.total + txn.tokens
                       <= MaxPurchasedTotal * Cardinality(DOMAIN txns)
                  /\ users' = [users EXCEPT ![txn.userId] =
                                 addPurchasedTokens(@, txn.tokens, now)]
                  /\ resp' = Resp("processTokenPurchase", t, 200, "ok")
     ELSE /\ txns' = [txns EXCEPT ![t].status = "failed"]
          /\ resp' = Resp("processTokenPurchase", t, 200, "failed")
          /\ UNCHANGED users
  /\ UNCHANGED <<now, orders, calls, audit>>

\* handleWebhook -> processWebhook -> processTokenWebhook (PhonePe)
PhonePeTokenWebhook(t, state, sigOk) ==
  LET txn == txns[t] IN
  /\ \A p \in Procs : calls[p].pc = "idle"
  /\ IF ~sigOk
     THEN resp' = Resp("phonepeTokenWebhook", t, 401, "invalid_signature")
          /\ UNCHANGED <<users, txns>>
     ELSE /\ resp' = Resp("phonepeTokenWebhook", t, 200, "ack")
          /\ IF ~txn.exists \/ state = "PENDING"
             THEN UNCHANGED <<users, txns>>
             ELSE IF state = "COMPLETED"
             THEN /\ users[txn.userId].tokens + txn.tokens <= MaxLegacyTokens
                  /\ txns' = [txns EXCEPT ![t].status = "completed"]
                  /\ users' = [users EXCEPT ![txn.userId].tokens = @ + txn.tokens]
             ELSE /\ txns' = [txns EXCEPT ![t].status = "failed",
                                          ![t].failureReason = TRUE]
                  /\ UNCHANGED users
  /\ UNCHANGED <<now, orders, calls, audit>>

\* verifyTokenPurchasePayment (Razorpay)
VerifyTokenPurchasePayment(t, sigOk) ==
  LET txn == txns[t] IN
  /\ \A p \in Procs : calls[p].pc = "idle"
  /\ IF ~sigOk
     THEN resp' = Resp("verifyTokenPurchasePayment", t, 400, "invalid_signature")
          /\ UNCHANGED <<users, txns>>
     ELSE IF ~txn.exists
     THEN resp' = Resp("verifyTokenPurchasePayment", t, 404, "not_found")
          /\ UNCHANGED <<users, txns>>
     ELSE IF txn.status = "completed"
     THEN resp' = Resp("verifyTokenPurchasePayment", t, 200, "already_processed")
          /\ UNCHANGED <<users, txns>>
     ELSE /\ users[txn.userId].tokens + txn.tokens <= MaxLegacyTokens
          /\ users[txn.userId].purchasedTokens.total + txn.tokens <= MaxPurchasedTotal
          /\ txns' = [txns EXCEPT ![t].status = "completed"]
          /\ users' = [users EXCEPT
                         ![txn.userId].tokens = @ + txn.tokens,
                         ![txn.userId].purchasedTokens.current = @ + txn.tokens,
                         ![txn.userId].purchasedTokens.total = @ + txn.tokens,
                         ![txn.userId].purchasedTokens.lastPurchasedAt = now]
          /\ resp' = Resp("verifyTokenPurchasePayment", t, 200, "ok")
  /\ UNCHANGED <<now, orders, calls, audit>>

\* --------------------------------------------------------------- expiry, time
\* cleanExpiredTokens of the enhanced token utilities
cleanedUser_KeepsPrize(user, t) ==
  IF SubscriptionExpired(user, t) /\ SumCurrent(user) > 0
  THEN [user EXCEPT !.dailyTokens.current = 0,
                    !.purchasedTokens.current = 0,
                    !.bonusTokens.current = 0,
                    !.tokens = 0,
                    !.temporaryTokens.amount = 0]
  ELSE user

cleanedUser(user, t) ==
  IF SubscriptionExpired(user, t) /\ SumCurrent(user) > 0
  THEN [user EXCEPT !.dailyTokens.current = 0,
                    !.purchasedTokens.current = 0,
                    !.bonusTokens.current = 0,
                    !.prizeTokens.current = 0,
                    !.tokens = 0,
                    !.temporaryTokens.amount = 0]
  ELSE user

CleanExpiredTokens(u) ==
  /\ \A p \in Procs : calls[p].pc = "idle"
  /\ users[u].exists
  /\ users' = [users EXCEPT ![u] = cleanedUser(@, now)]
  /\ resp' = Resp("cleanExpiredTokens", u, 0,
                  IF users'[u] # users[u] THEN "cleaned" ELSE "nothing")
  /\ UNCHANGED <<now, orders, txns, calls, audit>>

\* The clock advances
Tick(d) ==
  /\ now + d <= MaxTime
  /\ now' = now + d
  /\ UNCHANGED <<users, orders, txns, calls, resp, audit>>

\* accessResource: a resource is paid for with deductTokens
AccessResource(u, cost) ==
  /\ users[u].tokenStats.totalUsed + cost <= MaxTotalUsed
  /\ DeductTokens(u, cost)

\* ------------------------------------------------------------- specification
Init ==
  /\ now = 1
  /\ users = [u \in UserIds |-> NewUser]
  /\ audit = [u \in UserIds |-> [start |-> 0, deducted |-> 0]]
  /\ InitCommon

WebhookStates == {"COMPLETED", "FAILED", "PENDING"}

Next ==
  \/ \E u \in UserIds : Register(u)
  \/ \E o \in OrderIds, e \in UserIds, ok \in BOOLEAN : CreateOrder(o, e, ok)
  \/ \E o \in OrderIds, ok \in BOOLEAN : CreateSubscriptionPayment(o, ok)
  \/ \E o \in OrderIds, st \in WebhookStates, sigOk \in BOOLEAN :
       PhonePeSubscriptionWebhook(o, st, sigOk)
  \/ \E o \in OrderIds, sigOk \in BOOLEAN : VerifySubscriptionPayment(o, sigOk)
  \/ \E o \in OrderIds, env \in {"production", "development"},
        sig \in {"none", "dummy", "valid", "invalid"} : PaymentsWebhook(o, env, sig)
  \/ \E t \in TxnIds, u \in UserIds, ok \in BOOLEAN : CreateTokenPurchase(t, u, ok)
  \/ \E t \in TxnIds, u \in UserIds, g \in {"phonepe", "razorpay"}, ok \in BOOLEAN :
       CreateGatewayTokenOrder(t, u, g, ok)
  \/ \E t \in TxnIds, st \in {"success", "failed"} : ProcessTokenPurchase(t, st)
  \/ \E t \in TxnIds, st \in WebhookStates, sigOk \in BOOLEAN :
       PhonePeTokenWebhook(t, st, sigOk)
  \/ \E t \in TxnIds, sigOk \in BOOLEAN : VerifyTokenPurchasePayment(t, sigOk)
  \/ \E u \in UserIds, cost \in ResourceCosts : AccessResource(u, cost)
  \/ \E u \in UserIds : CleanExpiredTokens(u)
  \/ \E d \in TickDays : Tick(d)

Spec == Init /\ [][Next]_vars

\* -------------------------------------------------- payment-handling claims
\* The account a completed order activates
OrderAccount(o) ==
  IF orders[o].userId # NoUser THEN orders[o].userId ELSE orders[o].userEmail

\* C1: on every completion path, a COMPLETED notification for a record that is
\* already completed changes neither the account (balances, subscription
\* window) nor the record: one activation or credit per record, however often
\* the notification is delivered.
C1_IdempotentCompletion ==
  [][/\ \A t \in TxnIds :
          ( /\ txns[t].exists /\ txns[t].status = "completed"
            /\ \/ PhonePeTokenWebhook(t, "COMPLETED", TRUE)
               \/ VerifyTokenPurchasePayment(t, TRUE)
               \/ ProcessTokenPurchase(t, "success") )
          => /\ users' = users
             /\ txns' = txns
     /\ \A o \in OrderIds :
          ( /\ orders[o].exists
            /\ \/ /\ orders[o].paymentStatus = "completed"
                  /\ \/ PhonePeSubscriptionWebhook(o, "COMPLETED", TRUE)
                     \/ VerifySubscriptionPayment(o, TRUE)
               \/ /\ orders[o].status = "completed"
                  /\ PaymentsWebhook(o, "production", "valid") )
          => /\ users' = users
             /\ orders' = orders
    ]_vars

\* C2: in every reachable state a completed token transaction has had its
\* tokens credited to the owner's purchased bucket, and a completed order has
\* an account whose subscription has been activated.
C2_CompletedMeansCredited ==
  /\ \A t \in TxnIds :
       (txns[t].exists /\ txns[t].status = "completed")
       => users[txns[t].userId].purchasedTokens.total >= txns[t].tokens
  /\ \A o \in OrderIds :
       ( /\ orders[o].exists
         /\ \/ orders[o].paymentStatus = "completed"
            \/ orders[o].status = "completed" )
       => /\ users[OrderAccount(o)].exists
          /\ users[OrderAccount(o)].subscription.endDate # Unset

\* C4: terminal status is write-once: an order's payment status or a token
\* transaction's status that is completed or failed is never changed to a
\* different status by any later operation.
C4_TerminalStatusSticky ==
  [][/\ \A o \in OrderIds :
          orders[o].paymentStatus \in {"completed", "failed"}
          => orders'[o].paymentStatus = orders[o].paymentStatus
     /\ \A t \in TxnIds :
          txns[t].status \in {"completed", "failed"}
          => txns'[t].status = txns[t].status
    ]_vars

\* C5: expiry invariant: whenever an account's subscription end date lies
\* before the current time, the sum of its four bucket currents is 0.
C5_ExpiredMeansEmpty ==
  \A u \in UserIds :
    ( /\ users[u].exists
      /\ users[u].subscription.endDate # Unset
      /\ users[u].subscription.endDate < now )
    => SumCurrent(users[u]) = 0

\* C10: end to end: a COMPLETED payment notification for a new account and the
\* plan (daily 100, 30 days, bonus 500) leaves the subscription active with
\* daily.current = 100, bonus.current = 500 and total = 600; the deduction of
\* 150 that follows takes daily 100, purchased 0, bonus 50 and leaves 450.
C10_EndToEnd ==
  [][/\ \A o \in OrderIds :
          ( /\ orders[o].exists
            /\ orders[o].paymentStatus # "completed"
            /\ orders[o].status # "completed"
            /\ users[OrderAccount(o)].subscription.endDate = Unset
            /\ \/ PhonePeSubscriptionWebhook(o, "COMPLETED", TRUE)
               \/ VerifySubscriptionPayment(o, TRUE)
               \/ PaymentsWebhook(o, "production", "valid") )
          => LET account == users'[OrderAccount(o)] IN
             /\ account.exists
             /\ account.subscription.endDate = now + PlanDurationDays
             /\ ~SubscriptionExpired(account, now)
             /\ account.dailyTokens.current = PlanDailyTokens
             /\ account.bonusTokens.current = PlanBonusTokens
             /\ calculateTotalTokens(account, now) = PlanDailyTokens + PlanBonusTokens
     /\ \A u \in UserIds, cost \in ResourceCosts :
          ( /\ users[u].exists
            /\ users[u].subscription.startDate = now
            /\ ~SubscriptionExpired(users[u], now)
            /\ users[u].tokenStats.totalUsed = 0
            /\ users[u].purchasedTokens.total = 0
            /\ DeductTokens(u, cost) )
          => /\ resp'.result = "ok"
             /\ resp'.breakdown = [daily |-> PlanDailyTokens, purchased |-> 0,
                                   bonus |-> cost - PlanDailyTokens, prize |-> 0]
             /\ calculateTotalTokens(users'[u], now)
                  = PlanDailyTokens + PlanBonusTokens - cost
    ]_vars

\* --------------------------------------------- specification of balance reads
\* getTokenBalance (GET /api/tokens/balance): reads the account, answers the
\* total of getTokenBreakdown
GetTokenBalance(u) ==
  /\ \A p \in Procs : calls[p].pc = "idle"
  /\ resp' = IF ~users[u].exists
             THEN Resp("getTokenBalance", u, 404, "not_found")
             ELSE [Resp("getTokenBalance", u, 200, "ok")
                     EXCEPT !.total = getTokenBreakdownTotal(users[u], now)]
  /\ UNCHANGED <<now, users, orders, txns, calls, audit>>

NextBalance ==
  \/ \E u \in UserIds : GetTokenBalance(u)
  \/ \E u \in UserIds, amount \in DeductAmounts : DeductTokens(u, amount)

SpecBalance == InitDeduct /\ [][NextBalance]_vars

\* C17: calculateTotalTokens and the total of getTokenBreakdown both equal the
\* sum of the four bucket currents when subscription.endDate is set and in the
\* future, both equal 0 when it is unset or in the past, and reading the
\* balance leaves the account unchanged.
C17_TotalsFollowExpiry ==
  [][\A u \in UserIds :
       GetTokenBalance(u) =>
         LET user == users[u]
             e == user.subscription.endDate
         IN /\ users' = users
            /\ (e # Unset /\ e > now)
                 => /\ calculateTotalTokens(user, now) = SumCurrent(user)
                    /\ resp'.total = SumCurrent(user)
            /\ (e = Unset \/ e < now)
                 => /\ calculateTotalTokens(user, now) = 0
                    /\ resp'.total = 0
    ]_vars

C17_Witness ==
  /\ resp.op = "getTokenBalance" /\ resp.result = "ok"
  /\ users["u1"].subscription.endDate # Unset
  /\ users["u1"].subscription.endDate < now
  /\ SumCurrent(users["u1"]) > 0
  /\ resp.total = 0

\* ------------------------------------------------ specification of renewals
\* Existing accounts in bounded bucket and window states (never subscribed,
\* expired, expiring now, still running) pay for the plan again.
NextRenew ==
  \/ \E o \in OrderIds, e \in UserIds, ok \in BOOLEAN : CreateOrder(o, e, ok)
  \/ \E o \in OrderIds, ok \in BOOLEAN : CreateSubscriptionPayment(o, ok)
  \/ \E o \in OrderIds, st \in WebhookStates, sigOk \in BOOLEAN :
       PhonePeSubscriptionWebhook(o, st, sigOk)
  \/ \E o \in OrderIds, sigOk \in BOOLEAN : VerifySubscriptionPayment(o, sigOk)
  \/ \E o \in OrderIds, env \in {"production", "development"},
        sig \in {"none", "dummy", "valid", "invalid"} : PaymentsWebhook(o, env, sig)
  \/ \E u \in UserIds : GetTokenBalance(u)

SpecRenew == InitDeduct /\ [][NextRenew]_vars

\* A step in which a completion handler applies the plan of order o to the
\* account the order belongs to
CompletionStep(o) ==
  /\ orders[o].exists
  /\ \/ /\ orders[o].userId # NoUser
        /\ PhonePeSubscriptionWebhook(o, "COMPLETED", TRUE)
     \/ /\ orders[o].paymentStatus # "completed"
        /\ VerifySubscriptionPayment(o, TRUE)
     \/ /\ orders[o].status # "completed"
        /\ PaymentsWebhook(o, "production", "valid")

\* C11: after a subscription payment completes, the account has startDate = now,
\* endDate = now + plan.durationDays, daily quota = plan.dailyTokens,
\* daily.current = the plan's daily quota, bonus.current = bonus.initial = the
\* plan's bonus with bonus.expiresAt = endDate, and isActive = true.
C11_ActivationEffect ==
  [][\A o \in OrderIds :
       CompletionStep(o) =>
         LET account == users'[OrderAccount(o)] IN
         /\ account.subscription = PlanSubscription(now)
         /\ account.dailyTokens.current = PlanDailyTokens
         /\ account.bonusTokens.current = PlanBonusTokens
         /\ account.bonusTokens.initial = PlanBonusTokens
         /\ account.bonusTokens.expiresAt = now + PlanDurationDays
    ]_vars

\* C12: a completed payment for an existing account, whatever its previous
\* endDate, sets endDate = now + plan.durationDays; remaining days of the old
\* window are never added.
C12_RenewalResetsWindow ==
  [][\A o \in OrderIds :
       (orders[o].exists /\ users[OrderAccount(o)].exists /\ CompletionStep(o)) =>
         /\ users'[OrderAccount(o)].subscription.startDate = now
         /\ users'[OrderAccount(o)].subscription.endDate = now + PlanDurationDays
    ]_vars

C12_Witness ==
  /\ resp.op = "verifySubscriptionPayment" /\ resp.result = "ok"
  /\ audit["u1"].start > 0
  /\ users["u1"].subscription.endDate = now + PlanDurationDays
  /\ users["u1"].dailyTokens.current + users["u1"].purchasedTokens.current > 0

\* C13: tokens held when the subscription end date passed are never spendable
\* again: right after the renewal of an expired account the spendable total
\* holds only what the renewal granted (at most the plan's daily quota and
\* bonus), nothing of the old purchased or prize balance.
C13_TokensDieWithPlan ==
  [][\A o \in OrderIds :
       ( /\ orders[o].exists
         /\ users[OrderAccount(o)].exists
         /\ users[OrderAccount(o)].subscription.endDate # Unset
         /\ users[OrderAccount(o)].subscription.endDate < now
         /\ CompletionStep(o) ) =>
         LET account == users'[OrderAccount(o)] IN
         /\ account.purchasedTokens.current = 0
         /\ account.prizeTokens.current = 0
         /\ account.dailyTokens.current \in {0, PlanDailyTokens}
         /\ account.bonusTokens.current \in {0, PlanBonusTokens}
    ]_vars

\* ------------------------------------------------- specification of credits
\* grantPrizeTokens of the enhanced token utilities
GrantPrizeTokens(u, amount) ==
  LET user == users[u]
      granted == [user EXCEPT !.prizeTokens.current = @ + amount,
                              !.prizeTokens.history = Append(@, amount),
                              !.temporaryTokens.amount =
                                user.prizeTokens.current + amount]
  IN
  /\ \A p \in Procs : calls[p].pc = "idle"
  /\ IF ~user.exists
     THEN resp' = Resp("grantPrizeTokens", u, 0, "UserNotFound") /\ UNCHANGED users
     ELSE IF SubscriptionExpired(user, now)
     THEN resp' = Resp("grantPrizeTokens", u, 0, "NoActiveSubscription")
          /\ UNCHANGED users
     ELSE /\ user.prizeTokens.current + amount <= MaxPrizeTotal
          /\ users' = [users EXCEPT ![u] =
                         [granted EXCEPT !.tokens = calculateTotalTokens(granted, now)]]
          /\ resp' = [Resp("grantPrizeTokens", u, 0, "ok") EXCEPT !.amount = amount]
  /\ UNCHANGED <<now, orders, txns, calls, audit>>

PrizeAmounts == {1}

\* Existing accounts in bounded bucket and window states buy token packages
\* through each gateway and receive prizes.
NextCredit ==
  \/ \E t \in TxnIds, u \in UserIds, ok \in BOOLEAN : CreateTokenPurchase(t, u, ok)
  \/ \E t \in TxnIds, u \in UserIds, g \in {"phonepe", "razorpay"}, ok \in BOOLEAN :
       CreateGatewayTokenOrder(t, u, g, ok)
  \/ \E t \in TxnIds, st \in {"success", "failed"} : ProcessTokenPurchase(t, st)
  \/ \E t \in TxnIds, st \in WebhookStates, sigOk \in BOOLEAN :
       PhonePeTokenWebhook(t, st, sigOk)
  \/ \E t \in TxnIds, sigOk \in BOOLEAN : VerifyTokenPurchasePayment(t, sigOk)
  \/ \E u \in UserIds, amount \in PrizeAmounts : GrantPrizeTokens(u, amount)

SpecCredit == InitDeduct /\ [][NextCredit]_vars

\* A step in which a completion handler credits the purchase of a transaction
\* that is not yet completed
PurchaseCreditStep(t) ==
  /\ txns[t].exists
  /\ txns[t].status # "completed"
  /\ \/ PhonePeTokenWebhook(t, "COMPLETED", TRUE)
     \/ VerifyTokenPurchasePayment(t, TRUE)
     \/ ProcessTokenPurchase(t, "success")

\* C14: every operation that credits purchased or prize tokens requires an
\* active subscription: with subscription.endDate unset or in the past the
\* credit leaves the account unchanged (a prize grant is answered
\* NoActiveSubscription), on every gateway's completion handler.
C14_CreditNeedsSubscription ==
  [][/\ \A t \in TxnIds :
          (PurchaseCreditStep(t) /\ SubscriptionExpired(users[txns[t].userId], now))
          => users' = users
     /\ \A u \in UserIds, amount \in PrizeAmounts :
          ( /\ users[u].exists /\ SubscriptionExpired(users[u], now)
            /\ GrantPrizeTokens(u, amount) )
          => users' = users /\ resp'.result = "NoActiveSubscription"
    ]_vars

\* C15: a successful credit of a purchase of n tokens raises purchased.current
\* and purchased.total by exactly n, sets purchased.expiresAt to
\* subscription.endDate, stamps lastPurchasedAt and leaves the daily, bonus and
\* prize buckets unchanged, on every path that completes a token purchase.
C15_PurchaseCreditEffect ==
  [][\A t \in TxnIds :
       (PurchaseCreditStep(t) /\ ~SubscriptionExpired(users[txns[t].userId], now))
       => LET before == users[txns[t].userId]
              after == users'[txns[t].userId]
          IN /\ after.purchasedTokens.current
                  = before.purchasedTokens.current + txns[t].tokens
             /\ after.purchasedTokens.total
                  = before.purchasedTokens.total + txns[t].tokens
             /\ after.purchasedTokens.expiresAt = before.subscription.endDate
             /\ after.purchasedTokens.lastPurchasedAt = now
             /\ after.dailyTokens = before.dailyTokens
             /\ after.bonusTokens = before.bonusTokens
             /\ after.prizeTokens = before.prizeTokens
    ]_vars

\* C16: after every credit operation (purchase credit, bonus grant at
\* activation, prize grant) the legacy tokens field of the account equals the
\* sum of the four bucket currents.
C16_LegacyTokensIsSum ==
  [][/\ \A t \in TxnIds :
          (PurchaseCreditStep(t) /\ users'[txns[t].userId] # users[txns[t].userId])
          => users'[txns[t].userId].tokens = SumCurrent(users'[txns[t].userId])
     /\ \A o \in OrderIds :
          CompletionStep(o)
          => users'[OrderAccount(o)].tokens = SumCurrent(users'[OrderAccount(o)])
     /\ \A u \in UserIds, amount \in PrizeAmounts :
          (GrantPrizeTokens(u, amount) /\ resp'.result = "ok")
          => users'[u].tokens = SumCurrent(users'[u])
    ]_vars

\* ------------------------------------------------ notification-handling claims
\* The signature values that do not verify: missing, the development
\* placeholder, or mismatching
UnverifiedSignatures == {"none", "dummy", "invalid"}

\* C18: no webhook or verification request whose signature does not verify
\* (missing, malformed or mismatching) changes any order, token transaction or
\* account, on every payment-notification endpoint and in every environment.
C18_UnsignedNeverMutates ==
  [][( \/ \E o \in OrderIds, st \in WebhookStates :
            PhonePeSubscriptionWebhook(o, st, FALSE)
       \/ \E t \in TxnIds, st \in WebhookStates : PhonePeTokenWebhook(t, st, FALSE)
       \/ \E o \in OrderIds : VerifySubscriptionPayment(o, FALSE)
       \/ \E t \in TxnIds : VerifyTokenPurchasePayment(t, FALSE)
       \/ \E o \in OrderIds, env \in {"production", "development"},
             sig \in UnverifiedSignatures : PaymentsWebhook(o, env, sig) )
     => /\ users' = users
        /\ orders' = orders
        /\ txns' = txns
    ]_vars

\* C19: a gateway webhook with an invalid signature is still answered with
\* HTTP 200, so the gateway does not retry.
C19_InvalidSignatureAnswered200 ==
  [][( \/ \E o \in OrderIds, st \in WebhookStates :
            PhonePeSubscriptionWebhook(o, st, FALSE)
       \/ \E t \in TxnIds, st \in WebhookStates : PhonePeTokenWebhook(t, st, FALSE) )
     => resp'.code = 200
    ]_vars

\* C20: on a FAILED notification for a pending record the order or token
\* transaction is marked failed with a stored failure reason, and the accounts
\* (buckets, legacy tokens, subscription) are left unchanged.
C20_FailedNotification ==
  [][/\ \A o \in OrderIds :
          ( /\ orders[o].exists /\ orders[o].paymentStatus = "pending"
            /\ PhonePeSubscriptionWebhook(o, "FAILED", TRUE) )
          => /\ orders'[o].paymentStatus = "failed"
             /\ orders'[o].failureReason
             /\ users' = users
     /\ \A t \in TxnIds :
          ( /\ txns[t].exists /\ txns[t].status = "pending"
            /\ \/ PhonePeTokenWebhook(t, "FAILED", TRUE)
               \/ txns[t].hasTransactionId /\ ProcessTokenPurchase(t, "failed") )
          => /\ txns'[t].status = "failed"
             /\ txns'[t].failureReason
             /\ users' = users
    ]_vars

\* ------------------------------------------------------------ expiry sweep
SweepDays == {1}

\* Accounts in bounded bucket and window states spend tokens, time passes
\* across the end of the window, and the expiry sweep runs on them.
NextSweep ==
  \/ \E u \in UserIds : CleanExpiredTokens(u)
  \/ \E u \in UserIds, amount \in DeductAmounts : DeductTokens(u, amount)
  \/ \E d \in SweepDays : now + d <= MaxEndDate + 1 /\ Tick(d)

SpecSweep == InitDeduct /\ [][NextSweep]_vars

\* C30: the expiry sweep on an account whose endDate is in the past sets the
\* four current balances to 0 and leaves purchased.total, bonus.initial, every
\* used counter and the prize history unchanged; on an account whose endDate
\* is in the future it changes nothing.
C30_ExpirySweep ==
  [][\A u \in UserIds :
       CleanExpiredTokens(u) =>
         /\ ( users[u].subscription.endDate # Unset
              /\ users[u].subscription.endDate < now )
            => /\ users'[u].dailyTokens.current = 0
               /\ users'[u].purchasedTokens.current = 0
               /\ users'[u].bonusTokens.current = 0
               /\ users'[u].prizeTokens.current = 0
               /\ users'[u].purchasedTokens.total = users[u].purchasedTokens.total
               /\ users'[u].bonusTokens.initial = users[u].bonusTokens.initial
               /\ users'[u].dailyTokens.usedToday = users[u].dailyTokens.usedToday
               /\ users'[u].purchasedTokens.used = users[u].purchasedTokens.used
               /\ users'[u].bonusTokens.used = users[u].bonusTokens.used
               /\ users'[u].prizeTokens.used = users[u].prizeTokens.used
               /\ users'[u].tokenStats = users[u].tokenStats
               /\ users'[u].prizeTokens.history = users[u].prizeTokens.history
         /\ users[u].subscription.endDate > now => users' = users
    ]_vars

\* An account whose window ended with prize tokens left and tokens spent
\* before has been swept.
C30_Witness ==
  \E u \in UserIds :
    /\ resp.op = "cleanExpiredTokens" /\ resp.id = u /\ resp.result = "cleaned"
    /\ users[u].subscription.endDate # Unset
    /\ users[u].subscription.endDate < now
    /\ users[u].prizeTokens.history # <<>>
    /\ users[u].prizeTokens.current = 0
    /\ users[u].tokenStats.totalUsed > 0

\* ------------------------------------------------------- provider failures
\* C24: whenever the gateway call that creates the payment order fails, no
\* pending Order or TokenTransaction created for that attempt remains in the
\* store, for subscription order creation and for token-purchase initiation
\* on both gateways.
C24_ProviderErrorRollback ==
  [][( \/ \E o \in OrderIds, e \in UserIds : CreateOrder(o, e, FALSE)
       \/ \E t \in TxnIds, u \in UserIds : CreateTokenPurchase(t, u, FALSE)
       \/ \E t \in TxnIds, u \in UserIds, g \in {"phonepe", "razorpay"} :
            users[u].exists /\ CreateGatewayTokenOrder(t, u, g, FALSE) )
     => /\ \A o \in OrderIds : orders'[o].exists = orders[o].exists
        /\ \A t \in TxnIds : txns'[t].exists = txns[t].exists
    ]_vars

\* ------------------------------------------------------- status polling
\* checkSubscriptionStatus: asks the gateway for the order's state and answers
\* with it next to the stored order's paymentStatus
CheckSubscriptionStatus(o, gatewayState) ==
  /\ \A p \in Procs : calls[p].pc = "idle"
  /\ resp' = Resp("checkSubscriptionStatus", o, 200, gatewayState)
  /\ UNCHANGED <<now, users, orders, txns, calls, audit>>

\* checkTokenStatus: the same for a token transaction
CheckTokenStatus(t, gatewayState) ==
  /\ \A p \in Procs : calls[p].pc = "idle"
  /\ resp' = Resp("checkTokenStatus", t, 200, gatewayState)
  /\ UNCHANGED <<now, users, orders, txns, calls, audit>>

\* PhonePe payments that are pushed by webhook and pulled by status polling.
NextPoll ==
  \/ \E u \in UserIds : Register(u)
  \/ \E o \in OrderIds, e \in UserIds, ok \in BOOLEAN : CreateOrder(o, e, ok)
  \/ \E o \in OrderIds, ok \in BOOLEAN : CreateSubscriptionPayment(o, ok)
  \/ \E o \in OrderIds, st \in WebhookStates, sigOk \in BOOLEAN :
       PhonePeSubscriptionWebhook(o, st, sigOk)
  \/ \E t \in TxnIds, u \in UserIds, ok \in BOOLEAN :
       CreateGatewayTokenOrder(t, u, "phonepe", ok)
  \/ \E t \in TxnIds, st \in WebhookStates, sigOk \in BOOLEAN :
       PhonePeTokenWebhook(t, st, sigOk)
  \/ \E o \in OrderIds, st \in WebhookStates : CheckSubscriptionStatus(o, st)
  \/ \E t \in TxnIds, st \in WebhookStates : CheckTokenStatus(t, st)

SpecPoll == Init /\ [][NextPoll]_vars

\* C21: when status polling observes COMPLETED or FAILED at the gateway for a
\* pending order or token transaction, the record ends in the state the
\* corresponding webhook leaves it in (completed or failed).
C21_PushPullConverge ==
  [][/\ \A o \in OrderIds, st \in {"COMPLETED", "FAILED"} :
          ( /\ orders[o].exists /\ orders[o].paymentStatus = "pending"
            /\ CheckSubscriptionStatus(o, st) )
          => orders'[o].paymentStatus =
               (IF st = "COMPLETED" THEN "completed" ELSE "failed")
     /\ \A t \in TxnIds, st \in {"COMPLETED", "FAILED"} :
          ( /\ txns[t].exists /\ txns[t].status = "pending"
            /\ CheckTokenStatus(t, st) )
          => txns'[t].status = (IF st = "COMPLETED" THEN "completed" ELSE "failed")
    ]_vars

\* ------------------------------------------------------------ guest checkout
\* C22: after any interleaving of completions and registrations for one email
\* there is one account for that email (accounts are keyed by their unique
\* email), every completed order for that email is linked to that account, and
\* its payment is applied to it.
C22_GuestCheckoutLinked ==
  \A o \in OrderIds :
    ( /\ orders[o].exists
      /\ \/ orders[o].paymentStatus = "completed"
         \/ orders[o].status = "completed" )
    => /\ orders[o].userId = orders[o].userEmail
       /\ users[orders[o].userEmail].exists
       /\ users[orders[o].userEmail].subscription.endDate # Unset

\* ------------------------------------------- PhonePe webhook acknowledgment
\* One PhonePe webhook request in a handler: what it carries, whether its
\* response has been sent, and what became of its asynchronous processing.
IdleWebhook ==
  [pc |-> "idle", kind |-> "none", id |-> "none", state |-> "none",
   acked |-> FALSE, logged |-> FALSE, unhandled |-> FALSE]

WebhookKinds == {"subscription", "token_purchase"}

FailPoints == {"none", "find", "save"}

\* processWebhook(webhookData).catch(error => console.error(...)): a rejection
\* of the processing promise is logged and goes no further
asyncFailure_Uncaught(call) ==
  [call EXCEPT !.pc = "idle", !.unhandled = TRUE]

asyncFailure(call) ==
  [call EXCEPT !.pc = "idle", !.logged = TRUE]

\* handleWebhook up to the point where processWebhook is started: 401 on an
\* invalid signature, 200 from the outer catch when the body cannot be parsed,
\* otherwise the 200 acknowledgment
WebhookReceive(p, kind, id, state, sigOk, parseOk) ==
  /\ calls[p].pc = "idle"
  /\ IF ~sigOk
     THEN /\ resp' = Resp("phonepeWebhook", id, 401, "invalid_signature")
          /\ calls' = [calls EXCEPT ![p] = IdleWebhook]
     ELSE IF ~parseOk
     THEN /\ resp' = Resp("phonepeWebhook", id, 200, "failed")
          /\ calls' = [calls EXCEPT ![p] = [IdleWebhook EXCEPT !.logged = TRUE]]
     ELSE /\ resp' = Resp("phonepeWebhook", id, 200, "ack")
          /\ calls' = [calls EXCEPT ![p] =
                         [IdleWebhook EXCEPT !.pc = "processing", !.kind = kind,
                                             !.id = id, !.state = state,
                                             !.acked = TRUE]]
  /\ UNCHANGED <<now, users, orders, txns, audit>>

\* processWebhook -> processSubscriptionWebhook / processTokenWebhook, running
\* after the acknowledgment; a database error at failAt rejects the promise
WebhookProcess(p, failAt) ==
  LET c == calls[p]
      isOrder == c.kind = "subscription"
      order == orders[c.id]
      txn == txns[c.id]
      found == IF isOrder THEN order.exists ELSE txn.exists
      failed == failAt = "find" \/ (failAt = "save" /\ found /\ c.state # "PENDING")
      acct == IF isOrder THEN order.userId ELSE txn.userId
      hasAcct == acct # NoUser /\ users[acct].exists
  IN
  /\ c.pc = "processing"
  /\ calls' = [calls EXCEPT ![p] =
                 IF failed THEN asyncFailure(c) ELSE [c EXCEPT !.pc = "idle"]]
  /\ IF failAt = "find" \/ ~found \/ c.state = "PENDING"
     THEN UNCHANGED <<users, orders, txns>>
     ELSE IF c.state = "COMPLETED"
     THEN /\ (~isOrder /\ hasAcct)
             => users[acct].tokens + txn.tokens <= MaxLegacyTokens
          /\ users' = IF ~hasAcct THEN users
                      ELSE IF isOrder
                      THEN [users EXCEPT ![acct] = activateLegacy(@, now)]
                      ELSE [users EXCEPT ![acct].tokens = @ + txn.tokens]
          /\ orders' = IF isOrder /\ ~failed
                       THEN [orders EXCEPT ![c.id].paymentStatus = "completed"]
                       ELSE orders
          /\ txns' = IF ~isOrder /\ ~failed
                     THEN [txns EXCEPT ![c.id].status = "completed"]
                     ELSE txns
     ELSE /\ orders' = IF isOrder /\ ~failed
                       THEN [orders EXCEPT ![c.id].paymentStatus = "failed",
                                           ![c.id].failureReason = TRUE]
                       ELSE orders
          /\ txns' = IF ~isOrder /\ ~failed
                     THEN [txns EXCEPT ![c.id].status = "failed",
                                       ![c.id].failureReason = TRUE]
                     ELSE txns
          /\ UNCHANGED users
  /\ UNCHANGED <<now, resp, audit>>

InitAck ==
  /\ now = 1
  /\ users = [u \in UserIds |-> NewUser]
  /\ audit = [u \in UserIds |-> [start |-> 0, deducted |-> 0]]
  /\ orders = [o \in OrderIds |-> NoOrder]
  /\ txns = [t \in TxnIds |-> NoTxn]
  /\ calls = [p \in Procs |-> IdleWebhook]
  /\ resp = NoResp

\* Orders and token purchases are started, and PhonePe webhooks for them are
\* received and processed by concurrent handlers.
NextAck ==
  \/ \E u \in UserIds : Register(u)
  \/ \E o \in OrderIds, e \in UserIds, ok \in BOOLEAN : CreateOrder(o, e, ok)
  \/ \E o \in OrderIds, ok \in BOOLEAN : CreateSubscriptionPayment(o, ok)
  \/ \E t \in TxnIds, u \in UserIds, ok \in BOOLEAN :
       CreateGatewayTokenOrder(t, u, "phonepe", ok)
  \/ \E p \in Procs, o \in OrderIds, st \in WebhookStates,
        sigOk \in BOOLEAN, parseOk \in BOOLEAN :
       WebhookReceive(p, "subscription", o, st, sigOk, parseOk)
  \/ \E p \in Procs, t \in TxnIds, st \in WebhookStates,
        sigOk \in BOOLEAN, parseOk \in BOOLEAN :
       WebhookReceive(p, "token_purchase", t, st, sigOk, parseOk)
  \/ \E p \in Procs, failAt \in FailPoints : WebhookProcess(p, failAt)

SpecAck == InitAck /\ [][NextAck]_vars

\* C23: for a validly signed PhonePe webhook the HTTP 200 acknowledgment is
\* sent before any order, token transaction or account is changed, and a
\* failure of the asynchronous processing that follows is caught and logged
\* and never leaves the handler.
C23_AckBeforeProcessing ==
  [][\A p \in Procs :
       /\ (calls[p].pc = "idle" /\ calls'[p].pc = "processing")
          => /\ calls'[p].acked
             /\ resp'.code = 200
             /\ UNCHANGED <<users, orders, txns>>
       /\ \A failAt \in FailPoints :
            WebhookProcess(p, failAt)
            => /\ calls[p].acked
               /\ ~calls'[p].unhandled
               /\ failAt = "find" => calls'[p].logged
               /\ (failAt = "save" /\ calls[p].state # "PENDING"
                   /\ IF calls[p].kind = "subscription"
                      THEN orders[calls[p].id].exists
                      ELSE txns[calls[p].id].exists)
                  => calls'[p].logged
    ]_vars

\* One handler has completed an order after acknowledging it, and another has
\* logged the failure of its acknowledged webhook's processing.
C23_Witness ==
  \E p \in Procs, q \in Procs :
    /\ calls[p].pc = "idle" /\ calls[p].acked /\ calls[p].logged
    /\ calls[q].pc = "idle" /\ calls[q].acked /\ ~calls[q].logged
    /\ calls[q].kind = "subscription" /\ calls[q].state = "COMPLETED"
    /\ orders[calls[q].id].paymentStatus = "completed"

\* ------------------------------------------------------- milestone checks
\* checkReferralMilestones as a step on the stored referrer
CheckReferralMilestones(r) ==
  /\ \A p \in Procs : calls[p].pc = "idle"
  /\ users[r].exists
  /\ users' = [users EXCEPT ![r] = checkReferralMilestones(@, now)]
  /\ resp' = Resp("checkReferralMilestones", r, 0,
                  IF users'[r] # users[r] THEN "granted" ELSE "none")
  /\ UNCHANGED <<now, orders, txns, calls, audit>>

MaxActive == 26
MaxPending == 1
MaxCycles == 1

ReferralEntry(id, isActive, subscriptionStatus) ==
  [userId |-> id, isActive |-> isActive, subscriptionStatus |-> subscriptionStatus]

\* A referrer with an active plan whose list holds k active entries followed
\* by p pending ones, c completed cycles of the first milestone and z prize
\* tokens.
ReferrerDoc(k, p, c, z) ==
  [BucketUser(0, 0, 0, z, MaxEndDate) EXCEPT
     !.referrals = [i \in 1..(k + p) |->
                      IF i <= k THEN ReferralEntry(i, TRUE, "active")
                      ELSE ReferralEntry(i, FALSE, "pending")],
     !.referralStats = [totalReferrals |-> k + p, activeReferrals |-> k],
     !.milestoneRewards.referral8Cycles = c,
     !.milestoneRewards.referral8LastReset = IF c > 0 THEN 1 ELSE Unset,
     !.milestoneRewards.totalTokensEarned = c * REFERRAL_MILESTONES[1].reward]

ReferrerDocs ==
  {ReferrerDoc(k, p, c, z) :
     k \in 0..MaxActive, p \in 0..MaxPending, c \in 0..MaxCycles, z \in 0..MaxPrize}

InitMilestone ==
  /\ now = 2
  /\ users \in [UserIds -> ReferrerDocs]
  /\ audit = [u \in UserIds |-> [start |-> SumCurrent(users[u]), deducted |-> 0]]
  /\ InitCommon

\* The milestone check runs on referrers in bounded referral states.
NextMilestone == \E r \in UserIds : CheckReferralMilestones(r)

SpecMilestone == InitMilestone /\ [][NextMilestone]_vars

CycledCount(user) ==
  Cardinality({i \in DOMAIN user.referrals :
                 user.referrals[i].subscriptionStatus = "cycled"})

\* C26: when a referrer has exactly a milestone's target of active referrals,
\* a milestone check makes exactly one reward grant and resets
\* activeReferrals to 0, and a second check with no activation in between
\* grants nothing further.
C26_MilestoneGrantsOnce ==
  [][\A r \in UserIds :
       ( /\ CheckReferralMilestones(r)
         /\ \E i \in DOMAIN REFERRAL_MILESTONES :
              users[r].referralStats.activeReferrals = REFERRAL_MILESTONES[i].target )
       => LET before == users[r].milestoneRewards
              after == users'[r].milestoneRewards
          IN /\ \E f \in CycleFields :
                  /\ after[f] = before[f] + 1
                  /\ \A g \in CycleFields \ {f} : after[g] = before[g]
             /\ \E i \in DOMAIN REFERRAL_MILESTONES :
                  after.totalTokensEarned =
                    before.totalTokensEarned + REFERRAL_MILESTONES[i].reward
             /\ users'[r].referralStats.activeReferrals = 0
             /\ checkReferralMilestones(users'[r], now) = users'[r]
    ]_vars

\* A referrer whose eight active referrals were cycled by a grant has been
\* checked again and nothing was granted.
C26_Witness ==
  \E r \in UserIds :
    /\ resp.op = "checkReferralMilestones" /\ resp.id = r /\ resp.result = "none"
    /\ CycledCount(users[r]) = REFERRAL_MILESTONES[1].target
    /\ users[r].referralStats.activeReferrals = 0
    /\ users[r].milestoneRewards.referral8Cycles > 0

\* C27: a milestone grant with reward r increases the referrer's
\* prizeTokens.current by r, increments that milestone's cycle counter by 1,
\* stamps its reset time, and changes every referral entry that was active to
\* isActive = false with subscriptionStatus 'cycled'.
C27_GrantEffect ==
  [][\A r \in UserIds :
       ( /\ CheckReferralMilestones(r)
         /\ users[r].referralStats.activeReferrals >= REFERRAL_MILESTONES[1].target )
       => LET m == REFERRAL_MILESTONES[1] IN
          /\ users'[r].prizeTokens.current = users[r].prizeTokens.current + m.reward
          /\ users'[r].milestoneRewards[m.cycleField] =
               users[r].milestoneRewards[m.cycleField] + 1
          /\ users'[r].milestoneRewards[m.resetField] = now
          /\ \A i \in DOMAIN users[r].referrals :
               users[r].referrals[i].isActive
               => /\ ~users'[r].referrals[i].isActive
                  /\ users'[r].referrals[i].subscriptionStatus = "cycled"
    ]_vars

\* C28: each call of the milestone check grants at most one reward, for the
\* first milestone in the order 8, 15, 25 whose target is reached, also when
\* several targets are reached at once.
C28_OneMilestonePerCheck ==
  [][\A r \in UserIds :
       CheckReferralMilestones(r)
       => LET active == users[r].referralStats.activeReferrals
              before == users[r].milestoneRewards
              after == users'[r].milestoneRewards
              first(i) == /\ active >= REFERRAL_MILESTONES[i].target
                          /\ \A j \in 1..(i - 1) :
                               active < REFERRAL_MILESTONES[j].target
          IN /\ \A i \in DOMAIN REFERRAL_MILESTONES :
                  after[REFERRAL_MILESTONES[i].cycleField] =
                    before[REFERRAL_MILESTONES[i].cycleField]
                      + (IF first(i) THEN 1 ELSE 0)
             /\ \A i \in DOMAIN REFERRAL_MILESTONES :
                  first(i) => after.totalTokensEarned =
                                before.totalTokensEarned + REFERRAL_MILESTONES[i].reward
             /\ (\A i \in DOMAIN REFERRAL_MILESTONES : ~first(i)) => after = before
    ]_vars

\* A referrer with all three targets reached has been checked: only the first
\* milestone was granted.
C28_Witness ==
  \E r \in UserIds :
    /\ resp.op = "checkReferralMilestones" /\ resp.id = r /\ resp.result = "granted"
    /\ CycledCount(users[r]) >= REFERRAL_MILESTONES[3].target
    /\ users[r].milestoneRewards.referral25Cycles = 0
    /\ users[r].milestoneRewards.referral15Cycles = 0
    /\ users[r].milestoneRewards.referral8Cycles > 0

\* ------------------------------------------------------- referral sequences
MaxReferred == 8
MaxGrantCycles == 2

\* validateReferralCode: the code's owner exists and its plan has not ended
validReferrer(user, t) ==
  user.exists /\ user.subscription.endDate # Unset /\ user.subscription.endDate >= t

\* register with referrer r's code by a new account, which gets the next id:
\* a pending entry is pushed on the referrer and its stats are recomputed
RegisterReferral(r) ==
  LET id == Len(users[r].referrals) + 1 IN
  /\ \A p \in Procs : calls[p].pc = "idle"
  /\ id <= MaxReferred
  /\ IF ~validReferrer(users[r], now)
     THEN resp' = Resp("register", r, 400, "invalid_referral_code") /\ UNCHANGED users
     ELSE /\ users' = [users EXCEPT ![r] =
                         updateReferralStats(
                           [@ EXCEPT !.referrals =
                              Append(@, ReferralEntry(id, FALSE, "pending"))])]
          /\ resp' = Resp("register", r, 201, "ok")
  /\ UNCHANGED <<now, orders, txns, calls, audit>>

\* verifySubscriptionPayment for a guest order that carries r's code: the new
\* account's entry is pushed and processReferralReward runs, and runs again in
\* the update block that follows
VerifyGuestReferral(r) ==
  LET id == Len(users[r].referrals) + 1
      pushed == [users[r] EXCEPT !.referrals =
                   Append(@, ReferralEntry(id, FALSE, "active"))]
      after == processReferralReward(processReferralReward(pushed, id, now), id, now)
  IN
  /\ \A p \in Procs : calls[p].pc = "idle"
  /\ id <= MaxReferred
  /\ validReferrer(users[r], now)
  /\ after.milestoneRewards.referral8Cycles <= MaxGrantCycles
  /\ users' = [users EXCEPT ![r] = after]
  /\ resp' = Resp("verifySubscriptionPayment", r, 200, "ok")
  /\ UNCHANGED <<now, orders, txns, calls, audit>>

\* processReferralReward(id, r), called when a subscription payment of the
\* referred account id completes
ProcessReferralReward(id, r) ==
  LET after == processReferralReward(users[r], id, now) IN
  /\ \A p \in Procs : calls[p].pc = "idle"
  /\ users[r].exists
  /\ after.milestoneRewards.referral8Cycles <= MaxGrantCycles
  /\ users' = [users EXCEPT ![r] = after]
  /\ resp' = Resp("processReferralReward", r, 0, "ok")
  /\ UNCHANGED <<now, orders, txns, calls, audit>>

InitReferral ==
  /\ now = 2
  /\ users \in [UserIds -> {ReferrerDoc(0, 0, 0, 0),
                            [ReferrerDoc(0, 0, 0, 0) EXCEPT !.subscription.endDate = 1]}]
  /\ audit = [u \in UserIds |-> [start |-> 0, deducted |-> 0]]
  /\ InitCommon

\* New accounts register with the code of a referrer whose plan is running or
\* has ended, or check out as guests with it, referred accounts pay, and the
\* milestones are checked.
NextReferral ==
  \/ \E r \in UserIds : RegisterReferral(r)
  \/ \E r \in UserIds : VerifyGuestReferral(r)
  \/ \E r \in UserIds, id \in 1..MaxReferred : ProcessReferralReward(id, r)
  \/ \E r \in UserIds : CheckReferralMilestones(r)

SpecReferral == InitReferral /\ [][NextReferral]_vars

\* C29 as stated: after any sequence of registrations with a referral code,
\* activations and milestone grants the referrer's activeReferrals equals the
\* number of entries with isActive = true, and an activation sets exactly the
\* matching entry to isActive = true, subscriptionStatus 'active'.
C29_Original ==
  [][\A r \in UserIds :
       /\ users'[r].referralStats.activeReferrals = ActiveCount(users'[r])
       /\ \A id \in DOMAIN users[r].referrals :
            ProcessReferralReward(id, r)
            => /\ users'[r].referrals[id].isActive
               /\ users'[r].referrals[id].subscriptionStatus = "active"
               /\ \A i \in DOMAIN users[r].referrals \ {id} :
                    users'[r].referrals[i] = users[r].referrals[i]
    ]_vars

\* C29: after any sequence of registrations with a referral code, activations
\* and milestone grants the referrer's activeReferrals equals the number of
\* entries with isActive = true; an activation sets exactly the matching entry
\* to isActive = true, subscriptionStatus 'active', unless it completes a
\* milestone, and then every entry that was active and the matching one end
\* isActive = false, subscriptionStatus 'cycled'.
C29_StatsMatchEntries ==
  [][\A r \in UserIds :
       /\ users'[r].referralStats.activeReferrals = ActiveCount(users'[r])
       /\ \A id \in DOMAIN users[r].referrals :
            ProcessReferralReward(id, r)
            => IF users'[r].milestoneRewards = users[r].milestoneRewards
               THEN /\ users'[r].referrals[id].isActive
                    /\ users'[r].referrals[id].subscriptionStatus = "active"
                    /\ \A i \in DOMAIN users[r].referrals \ {id} :
                         users'[r].referrals[i] = users[r].referrals[i]
               ELSE \A i \in DOMAIN users[r].referrals :
                      IF i = id \/ users[r].referrals[i].isActive
                      THEN /\ ~users'[r].referrals[i].isActive
                           /\ users'[r].referrals[i].subscriptionStatus = "cycled"
                      ELSE users'[r].referrals[i] = users[r].referrals[i]
    ]_vars

\* After a milestone grant cycled a referrer's entries, a referred account
\* paid again and its entry is active.
C29_Witness ==
  \E r \in UserIds :
    /\ resp.op = "processReferralReward" /\ resp.id = r
    /\ CycledCount(users[r]) > 0
    /\ ActiveCount(users[r]) > 0
    /\ users[r].referralStats.activeReferrals = ActiveCount(users[r])
    /\ users[r].milestoneRewards.referral8Cycles > 0

\* ------------------------------------------------- payments of referred accounts
ReferrerId == "r1"

\* register with the referral code of r: 400 when the code is not valid,
\* otherwise the new account is stored with referredBy and a pending entry for
\* it is pushed on the referrer, whose stats are recomputed
RegisterWithCode(u, r) ==
  /\ \A p \in Procs : calls[p].pc = "idle"
  /\ IF users[u].exists
     THEN resp' = Resp("register", u, 409, "exists") /\ UNCHANGED users
     ELSE IF ~validReferrer(users[r], now)
     THEN resp' = Resp("register", u, 400, "invalid_referral_code") /\ UNCHANGED users
     ELSE /\ users' =
               [users EXCEPT
                  ![u] = [NewUser EXCEPT !.exists = TRUE,
                                         !.subscription.dailyTokens = 0,
                                         !.referredBy = r],
                  ![r] = updateReferralStats(
                           [@ EXCEPT !.referrals =
                              Append(@, ReferralEntry(u, FALSE, "pending"))])]
          /\ resp' = Resp("register", u, 201, "ok")
  /\ UNCHANGED <<now, orders, txns, calls, audit>>

InitReferred ==
  /\ now = 1
  /\ users = [x \in UserIds \cup {ReferrerId} |->
                IF x = ReferrerId THEN ReferrerDoc(0, 0, 0, 0) ELSE NewUser]
  /\ audit = [u \in UserIds |-> [start |-> 0, deducted |-> 0]]
  /\ InitCommon

\* An account registers with or without a referrer's code and pays for a
\* subscription through each gateway and the payments webhook.
NextReferred ==
  \/ \E u \in UserIds : Register(u)
  \/ \E u \in UserIds : RegisterWithCode(u, ReferrerId)
  \/ \E o \in OrderIds, e \in UserIds, ok \in BOOLEAN : CreateOrder(o, e, ok)
  \/ \E o \in OrderIds, ok \in BOOLEAN : CreateSubscriptionPayment(o, ok)
  \/ \E o \in OrderIds, st \in WebhookStates, sigOk \in BOOLEAN :
       PhonePeSubscriptionWebhook(o, st, sigOk)
  \/ \E o \in OrderIds, sigOk \in BOOLEAN : VerifySubscriptionPayment(o, sigOk)
  \/ \E o \in OrderIds, env \in {"production", "development"},
        sig \in {"none", "dummy", "valid", "invalid"} : PaymentsWebhook(o, env, sig)
  \/ \E d \in SweepDays : now + d <= MaxEndDate + 1 /\ Tick(d)

SpecReferred == InitReferred /\ [][NextReferred]_vars

\* C25: whenever a subscription payment completes for an account that has a
\* referrer, through either gateway or the payments webhook, the referral
\* engine is run for (account, referrer) in that completion: the referrer is
\* left as processReferralReward leaves it.
C25_ReferralEngineInvoked ==
  [][\A o \in OrderIds :
       ( /\ CompletionStep(o)
         /\ users[OrderAccount(o)].exists
         /\ users[OrderAccount(o)].referredBy # NoUser )
       => LET u == OrderAccount(o)
              r == users[u].referredBy
          IN users'[r] = processReferralReward(users[r], u, now)
    ]_vars

\* ------------------------------------------------------- usage statistics
StatsSum(user) ==
  user.tokenStats.dailyUsed + user.tokenStats.purchasedUsed
    + user.tokenStats.bonusUsed + user.tokenStats.prizeUsed

\* C31: a successful deductTokens call of amount a with breakdown b increases
\* tokenStats.totalUsed by a and each bucket's used counter and statistic by
\* b[bucket] (dailyTokens.usedToday by b.daily) in the step that debits the
\* buckets, so that from zeroed statistics tokenStats.totalUsed stays equal to
\* dailyUsed + purchasedUsed + bonusUsed + prizeUsed.
C31_UsageStatistics ==
  [][\A u \in UserIds :
       /\ users'[u].tokenStats.totalUsed = StatsSum(users'[u])
       /\ \A a \in {resp'.amount} :
            (DeductTokens(u, a) /\ resp'.result = "ok")
            => LET b == resp'.breakdown
                   old == users[u]
                   new == users'[u]
               IN /\ new.tokenStats.totalUsed = old.tokenStats.totalUsed + a
                  /\ new.dailyTokens.usedToday = old.dailyTokens.usedToday + b.daily
                  /\ new.purchasedTokens.used = old.purchasedTokens.used + b.purchased
                  /\ new.bonusTokens.used = old.bonusTokens.used + b.bonus
                  /\ new.prizeTokens.used = old.prizeTokens.used + b.prize
                  /\ new.tokenStats.dailyUsed = old.tokenStats.dailyUsed + b.daily
                  /\ new.tokenStats.purchasedUsed =
                       old.tokenStats.purchasedUsed + b.purchased
                  /\ new.tokenStats.bonusUsed = old.tokenStats.bonusUsed + b.bonus
                  /\ new.tokenStats.prizeUsed = old.tokenStats.prizeUsed + b.prize
                  /\ new.dailyTokens.current = old.dailyTokens.current - b.daily
                  /\ new.purchasedTokens.current =
                       old.purchasedTokens.current - b.purchased
    ]_vars

\* Two successful deductions have been made, the last one from the daily and
\* the purchased bucket.
C31_Witness ==
  \E u \in UserIds :
    /\ resp.op = "deductTokens" /\ resp.id = u /\ resp.result = "ok"
    /\ resp.breakdown.daily > 0 /\ resp.breakdown.purchased > 0
    /\ users[u].tokenStats.totalUsed > resp.amount
    /\ users[u].tokenStats.totalUsed = StatsSum(users[u])

\* ------------------------------------------------------- record retention
TransactionTtlDays == 1

\* The TTL index on metadata.expiresAt (default: creation + 24 hours,
\* expireAfterSeconds 0): the database removes a TokenTransaction once its
\* expiresAt has passed
TtlMonitor(t) ==
  /\ txns[t].exists
  /\ txns[t].createdAt + TransactionTtlDays <= now
  /\ txns' = [txns EXCEPT ![t] = NoTxn]
  /\ UNCHANGED <<now, users, orders, calls, resp, audit>>

\* Orders and token purchases are created and paid through PhonePe while days
\* pass and the database's TTL monitor runs.
NextRetention ==
  \/ \E u \in UserIds : Register(u)
  \/ \E o \in OrderIds, e \in UserIds, ok \in BOOLEAN : CreateOrder(o, e, ok)
  \/ \E o \in OrderIds, ok \in BOOLEAN : CreateSubscriptionPayment(o, ok)
  \/ \E o \in OrderIds, st \in WebhookStates, sigOk \in BOOLEAN :
       PhonePeSubscriptionWebhook(o, st, sigOk)
  \/ \E t \in TxnIds, u \in UserIds, g \in {"phonepe", "razorpay"}, ok \in BOOLEAN :
       CreateGatewayTokenOrder(t, u, g, ok)
  \/ \E t \in TxnIds, st \in WebhookStates, sigOk \in BOOLEAN :
       PhonePeTokenWebhook(t, st, sigOk)
  \/ \E d \in SweepDays : now + d <= MaxEndDate + 1 /\ Tick(d)
  \/ \E t \in TxnIds : TtlMonitor(t)

SpecRetention == Init /\ [][NextRetention]_vars

\* C32: Order and TokenTransaction records are never removed by time-based
\* cleanup: a record that was created stays in the store however much time
\* passes.
C32_AuditRecordsKept ==
  [][/\ \A o \in OrderIds : orders[o].exists => orders'[o].exists
     /\ \A t \in TxnIds : txns[t].exists => txns'[t].exists
    ]_vars

\* ------------------------------------------------- gateway auth-token cache
MaxClock == 1200

\* const bufferTime = 300
BufferTime == 300

ClockSteps == {150}

\* What the gateway puts between now and expires_at of a token it issues.
TokenLifetimes == {300, 450, 900}

\* let tokenCache = { token: null, expiresAt: null }, one per server process
EmptyTokenCache == [token |-> Unset, expiresAt |-> Unset]

IdleServer == [pc |-> "idle", tokenCache |-> EmptyTokenCache]

isTokenValid_NoBuffer(cache, t) ==
  IF cache.token = Unset \/ cache.expiresAt = Unset THEN FALSE
  ELSE cache.expiresAt - t > 0

\* isTokenValid at time t (seconds)
isTokenValid(cache, t) ==
  IF cache.token = Unset \/ cache.expiresAt = Unset THEN FALSE
  ELSE cache.expiresAt - t > BufferTime

\* getAuthToken on server process p: the cached token, or a token requested
\* from the gateway (named by its time of issue) that replaces the cache, or
\* the error of a failed request after the cache was emptied
GetAuthToken(p, gatewayOk, lifetime) ==
  LET cache == calls[p].tokenCache
      issued == [token |-> now, expiresAt |-> now + lifetime]
  IN
  /\ calls[p].pc = "idle"
  /\ IF isTokenValid(cache, now)
     THEN /\ resp' = [Resp("getAuthToken", p, 0, "cached") EXCEPT
                        !.amount = cache.token, !.total = cache.expiresAt]
          /\ UNCHANGED calls
     ELSE IF gatewayOk
     THEN /\ calls' = [calls EXCEPT ![p].tokenCache = issued]
          /\ resp' = [Resp("getAuthToken", p, 0, "issued") EXCEPT
                        !.amount = issued.token, !.total = issued.expiresAt]
     ELSE /\ calls' = [calls EXCEPT ![p].tokenCache = EmptyTokenCache]
          /\ resp' = Resp("getAuthToken", p, 0, "error")
  /\ UNCHANGED <<now, users, orders, txns, audit>>

\* Date.now() / 1000 moves on
ClockSeconds(s) ==
  /\ now + s <= MaxClock
  /\ now' = now + s
  /\ UNCHANGED <<users, orders, txns, calls, resp, audit>>

InitToken ==
  /\ now = 1
  /\ users = [u \in UserIds |-> NewUser]
  /\ audit = [u \in UserIds |-> [start |-> 0, deducted |-> 0]]
  /\ orders = [o \in OrderIds |-> NoOrder]
  /\ txns = [t \in TxnIds |-> NoTxn]
  /\ calls = [p \in Procs |-> IdleServer]
  /\ resp = NoResp

\* Server processes ask for the gateway token as time passes.
NextToken ==
  \/ \E p \in Procs, ok \in BOOLEAN, l \in TokenLifetimes : GetAuthToken(p, ok, l)
  \/ \E s \in ClockSteps : ClockSeconds(s)

SpecToken == InitToken /\ [][NextToken]_vars

\* C33: getAuthToken returns the cached token without asking the gateway
\* exactly when a token is cached and its expiry is more than 300 seconds in
\* the future; otherwise it requests a new token and replaces the cache; when
\* the request fails the cache is emptied and the error is raised, so that a
\* stale or failed token is never returned.
C33_TokenCache ==
  [][\A p \in Procs, ok \in BOOLEAN, l \in TokenLifetimes :
       GetAuthToken(p, ok, l)
       => LET cache == calls[p].tokenCache
              fresh == /\ cache.token # Unset /\ cache.expiresAt # Unset
                       /\ cache.expiresAt > now + BufferTime
          IN /\ fresh <=> (resp'.result = "cached")
             /\ resp'.result = "cached"
                  => /\ calls' = calls
                     /\ resp'.amount = cache.token
                     /\ resp'.total > now + BufferTime
             /\ (~fresh /\ ok)
                  => /\ resp'.result = "issued"
                     /\ resp'.amount = now
                     /\ calls'[p].tokenCache.token = resp'.amount
                     /\ calls'[p].tokenCache.expiresAt = now + l
             /\ (~fresh /\ ~ok)
                  => /\ resp'.result = "error"
                     /\ resp'.amount = Unset
                     /\ calls'[p].tokenCache = EmptyTokenCache
    ]_vars

\* A token issued earlier has been returned from the cache of one server
\* process while the cache of another is empty.
C33_Witness ==
  \E p \in Procs, q \in Procs :
    /\ resp.op = "getAuthToken" /\ resp.id = p /\ resp.result = "cached"
    /\ resp.amount < now
    /\ calls[p].tokenCache.token = resp.amount
    /\ calls[q].tokenCache = EmptyTokenCache
    /\ now > BufferTime

\* ------------------------------------------------------ completion paths
\* C34: an order completed by one completion path is recognised as already
\* processed by every other path: in every reachable state an order's status
\* is 'completed' exactly when its paymentStatus is 'completed'.
C34_CrossPathIdempotency ==
  \A o \in OrderIds :
    orders[o].exists
    => ((orders[o].status = "completed") <=> (orders[o].paymentStatus = "completed"))

\* ------------------------------------------- interleaved referral rewards
\* referrer.save() of a document loaded earlier: the paths changed since the
\* load are written over what the store holds.
referrerSave(stored, loaded, doc) ==
  [stored EXCEPT
     !.temporaryTokens = IF doc.temporaryTokens # loaded.temporaryTokens
                         THEN doc.temporaryTokens ELSE @,
     !.milestoneRewards = MergePaths(@, loaded.milestoneRewards, doc.milestoneRewards),
     !.referralStats = MergePaths(@, loaded.referralStats, doc.referralStats),
     !.referrals = [i \in DOMAIN @ |->
                      IF doc.referrals[i] # loaded.referrals[i]
                      THEN doc.referrals[i] ELSE @[i]]]

IdleReward == [pc |-> "idle", referrer |-> NoUser, id |-> 0, doc |-> NewUser]

\* The referrers requests start from: 6, 7, 14 or 24 active entries followed
\* by two pending ones.
StartActive == {6, 7, 14, 24}
StartDocs == {ReferrerDoc(k, 2, 0, 0) : k \in StartActive}

\* The referred accounts a request activates: the two last entries of the
\* referrer's list, or the first one again.
ActivationIds(user) ==
  {1, Len(user.referrals) - 1, Len(user.referrals)}

\* processReferralReward, first await: findOneAndUpdate flips the first entry
\* of the referred account in the store
RewardFlip(p, id, r) ==
  LET matching == {i \in DOMAIN users[r].referrals : users[r].referrals[i].userId = id}
      first == CHOOSE i \in matching : \A j \in matching : i <= j
  IN
  /\ calls[p].pc = "idle"
  /\ matching # {}
  /\ users' = [users EXCEPT ![r].referrals[first].isActive = TRUE,
                            ![r].referrals[first].subscriptionStatus = "active"]
  /\ calls' = [calls EXCEPT ![p] = [pc |-> "stats", referrer |-> r, id |-> id,
                                    doc |-> NewUser]]
  /\ UNCHANGED <<now, orders, txns, resp, audit>>

\* updateReferralStats: const user = await User.findById(referrerId)
StatsLoad(p) ==
  /\ calls[p].pc = "stats"
  /\ calls' = [calls EXCEPT ![p].pc = "statsSave", ![p].doc = users[calls[p].referrer]]
  /\ UNCHANGED <<now, users, orders, txns, resp, audit>>

\* updateReferralStats: the counts of the loaded list are saved
StatsSave(p) ==
  LET r == calls[p].referrer IN
  /\ calls[p].pc = "statsSave"
  /\ users' = [users EXCEPT ![r] =
                 referrerSave(@, calls[p].doc, updateReferralStats(calls[p].doc))]
  /\ calls' = [calls EXCEPT ![p].pc = "check", ![p].doc = NewUser]
  /\ UNCHANGED <<now, orders, txns, resp, audit>>

\* checkReferralMilestones called on its own
CheckStart(p, r) ==
  /\ calls[p].pc = "idle"
  /\ calls' = [calls EXCEPT ![p] = [pc |-> "check", referrer |-> r, id |-> 0,
                                    doc |-> NewUser]]
  /\ UNCHANGED <<now, users, orders, txns, resp, audit>>

\* checkReferralMilestones: const user = await User.findById(referrerId)
CheckLoad(p) ==
  /\ calls[p].pc = "check"
  /\ calls' = [calls EXCEPT ![p].pc = "grant", ![p].doc = users[calls[p].referrer]]
  /\ UNCHANGED <<now, users, orders, txns, resp, audit>>

\* checkReferralMilestones: the loop over the loaded document and the save of
\* grantMilestoneRewardAndReset
GrantSave(p) ==
  LET r == calls[p].referrer
      after == checkReferralMilestones(calls[p].doc, now)
  IN
  /\ calls[p].pc = "grant"
  /\ after.milestoneRewards.referral8Cycles <= MaxGrantCycles
  /\ users' = [users EXCEPT ![r] = referrerSave(@, calls[p].doc, after)]
  /\ calls' = [calls EXCEPT ![p] = IdleReward]
  /\ resp' = Resp("processReferralReward", r, 0,
                  IF after # calls[p].doc THEN "granted" ELSE "none")
  /\ UNCHANGED <<now, orders, txns, audit>>

InitInterleave ==
  /\ now = 2
  /\ users \in [UserIds -> StartDocs]
  /\ audit = [u \in UserIds |-> [start |-> 0, deducted |-> 0]]
  /\ orders = [o \in OrderIds |-> NoOrder]
  /\ txns = [t \in TxnIds |-> NoTxn]
  /\ calls = [p \in Procs |-> IdleReward]
  /\ resp = NoResp

\* Two requests at a time activate the pending referrals of a referrer, or its
\* first one again, and check its milestones.
NextInterleave ==
  \/ \E p \in Procs, r \in UserIds :
       \E id \in ActivationIds(users[r]) : RewardFlip(p, id, r)
  \/ \E p \in Procs : StatsLoad(p)
  \/ \E p \in Procs : StatsSave(p)
  \/ \E p \in Procs, r \in UserIds : CheckStart(p, r)
  \/ \E p \in Procs : CheckLoad(p)
  \/ \E p \in Procs : GrantSave(p)

SpecInterleave == InitInterleave /\ [][NextInterleave]_vars

\* C35: whatever the order in which referral activations and milestone checks
\* of concurrent requests interleave, and whatever count of active referrals a
\* check finds (8, 15, 25 or more), no account ever has a completed cycle of
\* the 15-referral or of the 25-referral milestone.
C35_OnlyFirstMilestoneGranted ==
  \A u \in UserIds :
    /\ users[u].milestoneRewards.referral15Cycles = 0
    /\ users[u].milestoneRewards.referral25Cycles = 0

\* A check that found at least 15 active referrals has granted a milestone
\* while another request for the same referrer was still in flight.
C35_Witness ==
  /\ resp.op = "processReferralReward"
  /\ resp.result = "granted"
  /\ \E u \in UserIds :
       /\ Len(users[u].referrals) >= 15
       /\ users[u].milestoneRewards.referral8Cycles > 0
       /\ \E p \in Procs : calls[p].pc # "idle" /\ calls[p].referrer = u

\* ------------------------------------------------------- device sessions
DeviceIds == {"d1", "d2", "d3"}
MaxSessions == 4

IdleLogin == [pc |-> "idle", user |-> NoUser, deviceId |-> "none"]

\* login, up to the device check: the sessions of the account are fetched; a
\* device that has one keeps it, a new device is refused with 409 when two
\* sessions were found, and is otherwise about to get a session
LoginCheck(p, u, d) ==
  LET existingSessions == users[u].sessions
      currentDeviceSession == {s \in existingSessions : s.deviceId = d}
  IN
  /\ calls[p].pc = "idle"
  /\ IF ~users[u].exists
     THEN /\ resp' = Resp("login", u, 401, "invalid_credentials")
          /\ UNCHANGED calls
     ELSE IF /\ users[u].subscription.endDate # Unset
             /\ users[u].subscription.endDate < now
     THEN /\ resp' = Resp("login", u, 401, "subscription_expired")
          /\ UNCHANGED calls
     ELSE IF currentDeviceSession # {}
     THEN /\ resp' = Resp("login", u, 200, "refreshed")
          /\ UNCHANGED calls
     ELSE IF Cardinality(existingSessions) >= 2
     THEN /\ resp' = Resp("login", u, 409, "device_limit")
          /\ UNCHANGED calls
     ELSE /\ calls' = [calls EXCEPT ![p] = [pc |-> "create", user |-> u, deviceId |-> d]]
          /\ UNCHANGED resp
  /\ UNCHANGED <<now, users, orders, txns, audit>>

\* login, from await newSession.save() on
LoginCreate(p) ==
  LET u == calls[p].user IN
  /\ calls[p].pc = "create"
  /\ users' = [users EXCEPT ![u] = withSession(@, calls[p].deviceId)]
  /\ calls' = [calls EXCEPT ![p] = IdleLogin]
  /\ resp' = Resp("login", u, 200, "created")
  /\ UNCHANGED <<now, orders, txns, audit>>

\* logout: Session.findOneAndDelete({ sessionId }) for the caller's session
Logout(u, sid) ==
  /\ \E s \in users[u].sessions : s.sessionId = sid
  /\ users' = [users EXCEPT ![u].sessions = {s \in @ : s.sessionId # sid}]
  /\ resp' = Resp("logout", u, 200, "ok")
  /\ UNCHANGED <<now, orders, txns, calls, audit>>

\* logoutDevice: Session.findOneAndDelete({ sessionId }) for the id in the body
LogoutDevice(u, sid) ==
  /\ IF \E s \in users[u].sessions : s.sessionId = sid
     THEN /\ users' = [users EXCEPT ![u].sessions = {s \in @ : s.sessionId # sid}]
          /\ resp' = Resp("logoutDevice", u, 200, "ok")
     ELSE /\ resp' = Resp("logoutDevice", u, 404, "not_found")
          /\ UNCHANGED users
  /\ UNCHANGED <<now, orders, txns, calls, audit>>

\* verifySubscriptionPayment with the Session collection in the state
VerifyAndLogin(o, sigOk) == verifySubscriptionPayment(o, sigOk, TRUE)

InitSession ==
  /\ now = 1
  /\ users = [u \in UserIds |-> NewUser]
  /\ audit = [u \in UserIds |-> [start |-> 0, deducted |-> 0]]
  /\ orders = [o \in OrderIds |-> NoOrder]
  /\ txns = [t \in TxnIds |-> NoTxn]
  /\ calls = [p \in Procs |-> IdleLogin]
  /\ resp = NoResp

NextSession ==
  \/ \E u \in UserIds : Register(u)
  \/ \E o \in OrderIds, e \in UserIds : CreateOrder(o, e, TRUE)
  \/ \E o \in OrderIds, sigOk \in BOOLEAN :
       /\ \A u \in UserIds : Cardinality(users[u].sessions) < MaxSessions
       /\ VerifyAndLogin(o, sigOk)
  \/ \E p \in Procs, u \in UserIds, d \in DeviceIds : LoginCheck(p, u, d)
  \/ \E p \in Procs : LoginCreate(p)
  \/ \E u \in UserIds, sid \in 1..MaxSessions : Logout(u, sid)
  \/ \E u \in UserIds, sid \in 1..MaxSessions : LogoutDevice(u, sid)

SpecSession == InitSession /\ [][NextSession]_vars

\* C36: in every reachable state, whatever the order of logins, logouts,
\* device logouts and payment verifications, an account has at most two
\* Session documents.
C36_TwoDeviceLimit ==
  \A u \in UserIds : Cardinality(users[u].sessions) <= 2

\* ------------------------------------------------- daily purchase limit
\* One transaction more than the package allows on a day.
PurchaseIds == 1..(MaxPurchasePerDay + 1)

\* The completed purchases of account u created on day d
completedOn(u, d) ==
  {t \in DOMAIN txns : /\ txns[t].exists /\ txns[t].userId = u
                       /\ txns[t].status = "completed"
                       /\ txns[t].createdAt = d}

\* An account with an active subscription buys packages on one day.
InitPurchase ==
  /\ now = 1
  /\ users = [u \in UserIds |-> activateRazorpay([NewUser EXCEPT !.exists = TRUE], now)]
  /\ audit = [u \in UserIds |-> [start |-> 0, deducted |-> 0]]
  /\ orders = [o \in OrderIds |-> NoOrder]
  /\ txns = [t \in PurchaseIds |-> NoTxn]
  /\ calls = [p \in Procs |-> IdleCall]
  /\ resp = NoResp

NextPurchase ==
  \/ \E t \in PurchaseIds, u \in UserIds : CreateTokenPurchase(t, u, TRUE)
  \/ \E t \in PurchaseIds : ProcessTokenPurchase(t, "success")

SpecPurchase == InitPurchase /\ [][NextPurchase]_vars

\* C37: for every account and day, the purchases created on that day that
\* have reached status completed number at most maxPurchasePerDay of the
\* package, whatever the order of initiations and completions.
C37_DailyPurchaseLimit ==
  \A u \in UserIds, d \in 0..MaxTime :
    Cardinality(completedOn(u, d)) <= MaxPurchasePerDay

\* ------------------------------------------------ legacy token deduction
MaxFlat == 2
MaxTemporary == 2
TemporaryExpiries == {1, 3}

\* calculateEffectiveTokens: the flat tokens plus the temporary tokens that
\* have an expiry time not yet passed
calculateEffectiveTokens(user, t) ==
  user.tokens
    + (IF /\ user.temporaryTokens.amount > 0
          /\ user.temporaryTokens.expiresAt # Unset
          /\ t <= user.temporaryTokens.expiresAt
       THEN user.temporaryTokens.amount ELSE 0)

\* deductTokensWithPriority on the loaded document: the flat tokens first, the
\* rest from the temporary tokens, then the enhanced buckets are synchronised
\* (the legacy usage counters of the flat schema are left out)
deductTokensWithPriority(user, tokensToDeduct, t) ==
  LET fromFlat == user.tokens >= tokensToDeduct
      deductFromDaily == IF fromFlat THEN tokensToDeduct ELSE user.tokens
      remainingToDeduct == tokensToDeduct - user.tokens
      fromTemporary == ~fromFlat /\ user.temporaryTokens.amount >= remainingToDeduct
      deductFromPrize == IF fromTemporary THEN remainingToDeduct ELSE 0
      debited ==
        [user EXCEPT !.tokens = @ - deductFromDaily,
                     !.temporaryTokens.amount = @ - deductFromPrize]
      dailySynced ==
        IF deductFromDaily > 0
        THEN [debited EXCEPT !.dailyTokens.current = debited.tokens,
                             !.dailyTokens.usedToday = @ + deductFromDaily,
                             !.tokenStats.dailyUsed = @ + deductFromDaily]
        ELSE debited
      prizeSynced ==
        IF deductFromPrize > 0 /\ dailySynced.prizeTokens.current >= deductFromPrize
        THEN [dailySynced EXCEPT
                !.prizeTokens.current = @ - deductFromPrize,
                !.prizeTokens.used = @ + deductFromPrize,
                !.tokenStats.prizeUsed = @ + deductFromPrize,
                !.temporaryTokens.amount =
                  dailySynced.prizeTokens.current - deductFromPrize]
        ELSE dailySynced
  IN
  IF calculateEffectiveTokens(user, t) < tokensToDeduct
  THEN [success |-> FALSE, user |-> user]
  ELSE [success |-> TRUE,
        user |-> [prizeSynced EXCEPT !.tokenStats.totalUsed = @ + tokensToDeduct]]

\* deductTokensWithPriority(userId, tokensToDeduct): load, deduct, save
DeductTokensWithPriority(u, tokensToDeduct) ==
  LET outcome == deductTokensWithPriority(users[u], tokensToDeduct, now) IN
  /\ users[u].exists
  /\ IF outcome.success
     THEN /\ users' = [users EXCEPT ![u] = outcome.user]
          /\ resp' = [Resp("deductTokensWithPriority", u, 0, "ok") EXCEPT
                        !.amount = tokensToDeduct,
                        !.total = calculateEffectiveTokens(outcome.user, now)]
     ELSE /\ resp' = [Resp("deductTokensWithPriority", u, 0, "Insufficient tokens")
                        EXCEPT !.amount = tokensToDeduct]
          /\ UNCHANGED users
  /\ UNCHANGED <<now, orders, txns, calls, audit>>

\* An account of the flat schema: flat tokens, temporary tokens with their
\* expiry time, and the prize bucket, which no grant or deduction of the
\* enhanced utilities leaves above the temporary amount
LegacyUser(flat, amount, expiresAt, prize) ==
  [NewUser EXCEPT !.exists = TRUE,
                  !.tokens = flat,
                  !.dailyTokens.current = flat,
                  !.temporaryTokens = [amount |-> amount, expiresAt |-> expiresAt],
                  !.prizeTokens.current = prize,
                  !.prizeTokens.used = amount - prize,
                  !.prizeTokens.history = IF amount > 0 THEN <<amount>> ELSE <<>>,
                  !.tokenStats.prizeUsed = amount - prize,
                  !.tokenStats.totalUsed = amount - prize,
                  !.subscription.endDate = MaxEndDate]

LegacyUsers ==
  {LegacyUser(flat, 0, Unset, 0) : flat \in 0..MaxFlat} \cup
  {LegacyUser(flat, amount, expiresAt, prize) :
     flat \in 0..MaxFlat, amount \in 1..MaxTemporary,
     expiresAt \in TemporaryExpiries, prize \in 0..MaxTemporary}

InitLegacy ==
  /\ now = 2
  /\ users \in [UserIds -> {user \in LegacyUsers :
                              user.prizeTokens.current <= user.temporaryTokens.amount}]
  /\ audit = [u \in UserIds |-> [start |-> 0, deducted |-> 0]]
  /\ InitCommon

NextLegacy ==
  \E u \in UserIds, tokensToDeduct \in 1..MaxAmount :
    DeductTokensWithPriority(u, tokensToDeduct)

SpecLegacy == InitLegacy /\ [][NextLegacy]_vars

\* C38: a successful deductTokensWithPriority(user, n) lowers the effective
\* tokens by exactly n, takes min(n, tokens) from the flat tokens and only the
\* rest from the temporary tokens, and never leaves the temporary amount
\* higher than before; a call with n above the effective tokens fails and
\* changes nothing.
C38_LegacyConservation ==
  [][\A u \in UserIds : \A n \in {resp'.amount} :
       DeductTokensWithPriority(u, n) =>
         LET before == users[u]
             after == users'[u]
             fromFlat == Min(n, before.tokens)
         IN IF n > calculateEffectiveTokens(before, now)
            THEN resp'.result = "Insufficient tokens" /\ users' = users
            ELSE /\ resp'.result = "ok"
                 /\ calculateEffectiveTokens(after, now)
                      = calculateEffectiveTokens(before, now) - n
                 /\ after.tokens = before.tokens - fromFlat
                 /\ after.temporaryTokens.amount
                      = before.temporaryTokens.amount - (n - fromFlat)
                 /\ after.temporaryTokens.amount <= before.temporaryTokens.amount
    ]_vars

====
